---- MODULE Spec2Model ----
(***************************************************************************)
(* brainmap.js: the MindMap widget's tree model (src/brainmap.js).         *)
(*                                                                         *)
(* A node is a record with the fields id and name, an optional field       *)
(* children (a sequence of nodes) and, once rendered, the layout fields    *)
(* _leafCount, _isLeaf, _isRoot, _depth, _angle, _x, _y that countLeaves,  *)
(* layout and layoutRoot write onto the node objects themselves.           *)
(*                                                                         *)
(* JavaScript objects have identity: heap maps a reference to the tree     *)
(* rooted at the object it names. "x" is the object the caller handed to   *)
(* setData, "live" the object JSON.parse built inside setData, "got" the   *)
(* object getData returned. treeData is the reference the widget holds.    *)
(* The caller uses a value returned by getData before its next call to the *)
(* widget and then lets go of it.                                          *)
(*                                                                         *)
(* Angles are exact: an angle is <<kind, n, d>>, "rad" for n/d radians and *)
(* "sweep" for start + (end - start) * n/d, start and end being the two    *)
(* ends of the root's sweep in layoutRoot. A coordinate is the record      *)
(* [c, r, f, a] standing for c + r * f(a), f being "cos" or "sin".         *)
(* Floating-point rounding is not modelled.                                *)
(***************************************************************************)
EXTENDS Integers, Sequences, FiniteSets, TLC

VARIABLES
  config,         \* this.config: the options editable and showStatus
  heap,           \* the tree objects: reference -> tree
  treeData,       \* this.treeData, a reference into heap
  got,            \* the reference getData returned last, "none" once let go
  nodeIdCounter,  \* this.nodeIdCounter
  statusEl,       \* this.statusEl: "null", "attached" or "detached"
  shown,          \* the status message the last call put on the screen, or ""
  ret,            \* what the last call returned: "true", "false" or "undefined"
  isEditing,      \* this.isEditing
  editingNode,    \* this.editingNode: "null" or a node id
  contextMenu,    \* this.contextMenu: Null or the menu on the page
  menuEls,        \* how many menu elements of the widget document.body holds
  modal,          \* the prompt showInputModal has open: Null or what awaits it
  zoom,           \* this.zoom
  offsetX,        \* this.offsetX
  offsetY,        \* this.offsetY
  isDragging,     \* this.isDragging
  dragStart,      \* this.dragStart: Null or [x, y, ox, oy]
  isTouching,     \* this.isTouching
  touchStart,     \* this.touchStart: Null or the record of the gesture's start
  lastTouchDistance,  \* this.lastTouchDistance: Null or a distance
  lastTouchCenter,    \* this.lastTouchCenter: Null or [x, y]
  touches,        \* the touches now on the screen, oldest first: [x, y, onNode]
  mouseDrag,      \* a mouse drag has begun on the svg and has not ended
  events,         \* how many pointer events the view has handled
  now,            \* Date.now(), in ms since the widget was drawn
  touchStartTime, \* touchStartTime of the node element's handlers
  touchStartPos,  \* their touchStartPos: Null or <<clientX, clientY>>
  tapCount,       \* their tapCount
  tapTimeout,     \* their tapTimeout: Null or the time it is due
  longPressTimeout,  \* their longPressTimeout: Null or the time it is due
  longPressing,   \* the element carries the class long-pressing
  strayed,        \* the finger on the node has been beyond the tolerance
  other,          \* a second widget later in the document: Null when there is
                  \* none, else its edit session [isEditing, editingNode] and
                  \* inputOver, whose node element its edit input was placed by
  invoked,        \* the calls made to the callbacks the host put into config
  attached,       \* the svg and the node elements are in the document
  input           \* the input of the edit session is in the document

treeVars == <<config, heap, treeData, got, nodeIdCounter, statusEl, shown, ret>>

uiVars == <<isEditing, editingNode, contextMenu, menuEls, modal>>

viewVars == <<zoom, offsetX, offsetY, isDragging, dragStart, isTouching,
              touchStart, lastTouchDistance, lastTouchCenter, touches,
              mouseDrag, events>>

pressVars == <<now, touchStartTime, touchStartPos, tapCount, tapTimeout,
               longPressTimeout, longPressing, strayed>>

domVars == <<attached, input>>

pageVars == <<other, invoked, domVars>>

vars == <<treeVars, uiVars, viewVars, pressVars, pageVars>>

\* a field that holds null or an object: Null, or Some(v) whose value is v[1]
Null == <<>>

Some(v) == <<v>>

(***************************************************************************)
(* Bounds and program constants                                            *)
(***************************************************************************)
MaxCounter == 12          \* no id is generated beyond node_<MaxCounter>

Width == 800
Height == 800
RadiusStep == 120

Seeds == {10}             \* Date.now() at construction

(***************************************************************************)
(* Node helpers                                                            *)
(***************************************************************************)
Has(node, k) == k \in DOMAIN node

With(node, k, v) == (k :> v) @@ node

\* node with every field of the record fields assigned
Assign(node, fields) == fields @@ node

LayoutFields == {"_leafCount", "_isLeaf", "_isRoot", "_depth", "_angle", "_x", "_y"}

RECURSIVE NodeAt(_, _)
NodeAt(tree, path) ==
  IF path = <<>> THEN tree ELSE NodeAt(tree.children[Head(path)], Tail(path))

RECURSIVE ReplaceAt(_, _, _)
ReplaceAt(tree, path, node) ==
  IF path = <<>> THEN node
  ELSE With(tree, "children",
            [tree.children EXCEPT
               ![Head(path)] = ReplaceAt(tree.children[Head(path)], Tail(path), node)])

RECURSIVE Paths(_)
Paths(tree) ==
  {<<>>} \cup
  (IF Has(tree, "children")
   THEN UNION {{<<i>> \o p : p \in Paths(tree.children[i])} : i \in DOMAIN tree.children}
   ELSE {})

InsertAt(seq, i, e) == SubSeq(seq, 1, i - 1) \o <<e>> \o SubSeq(seq, i, Len(seq))

RemoveAt(seq, i) == SubSeq(seq, 1, i - 1) \o SubSeq(seq, i + 1, Len(seq))

(***************************************************************************)
(* JSON.parse(JSON.stringify(v)): a new object with every own property of  *)
(* v whose value JSON can carry (strings, numbers, booleans, arrays and    *)
(* objects, which is all a node ever holds)                                *)
(***************************************************************************)
RECURSIVE JSONClone(_)
JSONClone(node) ==
  [f \in DOMAIN node |->
     IF f = "children"
     THEN [i \in DOMAIN node.children |-> JSONClone(node.children[i])]
     ELSE node[f]]

(***************************************************************************)
(* Exact fractions <<n, d>> (d > 0, lowest terms) for the angular sweep    *)
(***************************************************************************)
RECURSIVE GCD(_, _)
GCD(a, b) == IF b = 0 THEN a ELSE GCD(b, a % b)

Frac(n, d) == LET g == GCD(n, d) IN <<n \div g, d \div g>>

FracAdd(p, q) == Frac(p[1] * q[2] + q[1] * p[2], p[2] * q[2])

\* FracMid giving the start of the interval
FracMidStart(p, q) == p

\* FracScale without the weight
FracScaleWhole(p, n, d) == p

FracSub(p, q) == Frac(p[1] * q[2] - q[1] * p[2], p[2] * q[2])

FracScale(p, n, d) == Frac(p[1] * n, p[2] * d)

FracMid(p, q) == Frac(p[1] * q[2] + q[1] * p[2], 2 * p[2] * q[2])

(***************************************************************************)
(* countLeaves, layout, layoutRoot, render                                 *)
(***************************************************************************)
RECURSIVE SumLeafCounts(_)
SumLeafCounts(children) ==
  IF children = <<>> THEN 0
  ELSE Head(children)._leafCount + SumLeafCounts(Tail(children))

\* countLeaves without the test for an empty child sequence
RECURSIVE countLeavesOfAbsent(_)
countLeavesOfAbsent(node) ==
  IF ~Has(node, "children")
  THEN Assign(node, [_leafCount |-> 1, _isLeaf |-> TRUE])
  ELSE LET counted == [i \in DOMAIN node.children |->
                         countLeavesOfAbsent(node.children[i])]
       IN Assign(node, [children |-> counted, _isLeaf |-> FALSE,
                        _leafCount |-> SumLeafCounts(counted)])

RECURSIVE countLeaves(_)
countLeaves(node) ==
  IF ~Has(node, "children") \/ Len(node.children) = 0
  THEN Assign(node, [_leafCount |-> 1, _isLeaf |-> TRUE])
  ELSE LET counted == [i \in DOMAIN node.children |-> countLeaves(node.children[i])]
       IN Assign(node, [children |-> counted, _isLeaf |-> FALSE,
                        _leafCount |-> SumLeafCounts(counted)])

Polar(center, r, fn, mid) ==
  [c |-> center, r |-> r, f |-> fn, a |-> <<"sweep", mid[1], mid[2]>>]

RECURSIVE layout(_, _, _, _)
RECURSIVE layoutChildren(_, _, _, _, _, _)
\* the loop "for (const c of node.children)" of layout and of layoutRoot, from
\* child i on, angle being the loop's running angle
layoutChildren(children, i, leafCount, angle, width, depth) ==
  IF i > Len(children) THEN children
  ELSE LET c == children[i]
           span == FracScale(width, c._leafCount, leafCount)
       IN layoutChildren([children EXCEPT ![i] = layout(c, angle, FracAdd(angle, span), depth)],
                         i + 1, leafCount, FracAdd(angle, span), width, depth)

\* a layout that keeps the place a node already has
layoutOnce(node, startAngle, endAngle, depth) ==
  LET mid == FracMid(startAngle, endAngle)
      r == depth * RadiusStep
      placed == IF Has(node, "_angle") THEN node
                ELSE Assign(node, [_x |-> Polar(Width \div 2, r, "cos", mid),
                                   _y |-> Polar(Height \div 2, r, "sin", mid),
                                   _angle |-> <<"sweep", mid[1], mid[2]>>,
                                   _depth |-> depth])
  IN IF ~Has(node, "children") \/ Len(node.children) = 0 THEN placed
     ELSE With(placed, "children",
               layoutChildren(node.children, 1, node._leafCount, startAngle,
                              FracSub(endAngle, startAngle), depth + 1))

layout(node, startAngle, endAngle, depth) ==
  LET mid == FracMid(startAngle, endAngle)
      r == depth * RadiusStep
      placed == Assign(node, [_x |-> Polar(Width \div 2, r, "cos", mid),
                              _y |-> Polar(Height \div 2, r, "sin", mid),
                              _angle |-> <<"sweep", mid[1], mid[2]>>,
                              _depth |-> depth])
  IN IF ~Has(node, "children") \/ Len(node.children) = 0 THEN placed
     ELSE With(placed, "children",
               layoutChildren(node.children, 1, node._leafCount, startAngle,
                              FracSub(endAngle, startAngle), depth + 1))

layoutRoot(root) ==
  LET start == <<0, 1>>
      end == <<1, 1>>
      zero == <<"rad", 0, 1>>
      placed == Assign(root, [_x |-> [c |-> Width \div 2, r |-> 0, f |-> "cos", a |-> zero],
                              _y |-> [c |-> Height \div 2, r |-> 0, f |-> "sin", a |-> zero],
                              _angle |-> zero,
                              _depth |-> 0,
                              _isRoot |-> TRUE])
  IN IF ~Has(root, "children") THEN placed
     ELSE With(placed, "children",
               layoutChildren(root.children, 1, root._leafCount, start,
                              FracSub(end, start), 1))

\* the two ends of the root's sweep, -PI / 2 + gap and -PI / 2 + PI * 2 - gap,
\* as [pi, gap]: the multiples of PI and of gap they are made of
SweepStart == [pi |-> <<-1, 2>>, gap |-> <<1, 1>>]

SweepEnd == [pi |-> FracAdd(<<-1, 2>>, <<2, 1>>), gap |-> <<-1, 1>>]

\* the angle, as [pi, gap], at the fraction f of the root's sweep
Radians(f) ==
  [pi |-> FracAdd(SweepStart.pi,
                  FracScale(FracSub(SweepEnd.pi, SweepStart.pi), f[1], f[2])),
   gap |-> FracAdd(SweepStart.gap,
                   FracScale(FracSub(SweepEnd.gap, SweepStart.gap), f[1], f[2]))]

\* the calls this.layout(c, angle, angle + span, ...) that layoutRoot and layout
\* make on an annotated tree: [path, start, end], the node laid out and the
\* interval it is given
RECURSIVE layoutIntervals(_, _, _, _)
RECURSIVE childIntervals(_, _, _, _, _, _)
childIntervals(children, i, leafCount, angle, width, path) ==
  IF i > Len(children) THEN {}
  ELSE LET c == children[i]
           span == FracScale(width, c._leafCount, leafCount)
       IN layoutIntervals(c, angle, FracAdd(angle, span), Append(path, i))
            \cup childIntervals(children, i + 1, leafCount, FracAdd(angle, span),
                                width, path)

layoutIntervals(node, startAngle, endAngle, path) ==
  {[path |-> path, start |-> startAngle, end |-> endAngle]}
    \cup (IF ~Has(node, "children") \/ Len(node.children) = 0 THEN {}
          ELSE childIntervals(node.children, 1, node._leafCount, startAngle,
                              FracSub(endAngle, startAngle), path))

layoutRootIntervals(root) ==
  IF ~Has(root, "children") THEN {}
  ELSE childIntervals(root.children, 1, root._leafCount, <<0, 1>>,
                      FracSub(<<1, 1>>, <<0, 1>>), <<>>)

\* render(): countLeaves, layoutRoot (draw and updateTransform write the DOM only)
render(tree) == layoutRoot(countLeaves(tree))

(***************************************************************************)
(* findNodeById, findParentById: the path (child indexes from the root) of *)
(* the node found, where the code returns the node object itself           *)
(***************************************************************************)
NotFound == [found |-> FALSE, path |-> <<>>]

\* findNodeById answering with the node it was given when the id is not there
findNodeByIdOrSelf(tree, id) == [found |-> TRUE, path |-> <<>>]

RECURSIVE findNodeById(_, _)
RECURSIVE findNodeInChildren(_, _, _)
findNodeInChildren(tree, i, id) ==
  IF i > Len(tree.children) THEN NotFound
  ELSE LET f == findNodeById(tree.children[i], id)
       IN IF f.found THEN [found |-> TRUE, path |-> <<i>> \o f.path]
          ELSE findNodeInChildren(tree, i + 1, id)

findNodeById(tree, id) ==
  IF tree.id = id THEN [found |-> TRUE, path |-> <<>>]
  ELSE IF ~Has(tree, "children") THEN NotFound
  ELSE findNodeInChildren(tree, 1, id)

RECURSIVE findParentById(_, _)
RECURSIVE findParentInChildren(_, _, _)
findParentInChildren(tree, i, childId) ==
  IF i > Len(tree.children) THEN NotFound
  ELSE IF tree.children[i].id = childId THEN [found |-> TRUE, path |-> <<>>]
  ELSE LET f == findParentById(tree.children[i], childId)
       IN IF f.found THEN [found |-> TRUE, path |-> <<i>> \o f.path]
          ELSE findParentInChildren(tree, i + 1, childId)

findParentById(tree, childId) ==
  IF ~Has(tree, "children") THEN NotFound
  ELSE findParentInChildren(tree, 1, childId)

\* parent.children.findIndex(c => c.id === nodeId), 1-based; 0 for JavaScript's -1
RECURSIVE findIndexFrom(_, _, _)
findIndexFrom(children, i, nodeId) ==
  IF i > Len(children) THEN 0
  ELSE IF children[i].id = nodeId THEN i
  ELSE findIndexFrom(children, i + 1, nodeId)

findIndex(children, nodeId) == findIndexFrom(children, 1, nodeId)

\* generateId(): 'node_' + (++this.nodeIdCounter), for the counter's new value
generateId(counter) == "node_" \o ToString(counter)

(***************************************************************************)
(* setStatus. this.statusEl is "null" (never created), "attached" (in the  *)
(* container) or "detached" (setupDOM emptied the container and, the       *)
(* option showStatus being off, made no new one). shown is what a call     *)
(* leaves on the user's screen: the text setStatus wrote into an attached  *)
(* element, or "" when it wrote none there. The callback that puts the     *)
(* idle text back 3 s later is not modelled.                               *)
(***************************************************************************)
\* setStatus writing nothing
setStatusNever(el, message) == ""

\* setStatus(message): what the user sees of it
setStatus(el, message) == IF el = "attached" THEN message ELSE ""

\* the last of a call's status messages, "" for a call that sets none
RECURSIVE setStatusAll(_, _, _)
setStatusAll(el, messages, seen) ==
  IF messages = <<>> THEN seen
  ELSE setStatusAll(el, Tail(messages), setStatus(el, Head(messages)))

\* str.trim(), for names whose only white space is the space
RECURSIVE TrimStart(_)
TrimStart(str) ==
  IF Len(str) > 0 /\ SubSeq(str, 1, 1) = " "
  THEN TrimStart(SubSeq(str, 2, Len(str)))
  ELSE str

RECURSIVE TrimEnd(_)
TrimEnd(str) ==
  IF Len(str) > 0 /\ SubSeq(str, Len(str), Len(str)) = " "
  THEN TrimEnd(SubSeq(str, 1, Len(str) - 1))
  ELSE str

Trim(str) == TrimEnd(TrimStart(str))

\* a || b losing its fallback
OrElseNothing(a, b) == a

\* a || b on strings: the empty string is falsy
OrElse(a, b) == IF a = "" THEN b ELSE a

(***************************************************************************)
(* The tree operations, as functions of the live tree and the counter.     *)
(* Each yields [ret, tree, render, counter, status]: the value returned,   *)
(* the tree as edited, whether render() is then called on it, the counter  *)
(* left behind and the status messages set.                                *)
(***************************************************************************)
Failed(tree, counter, messages) ==
  [ret |-> "false", tree |-> tree, render |-> FALSE, counter |-> counter,
   status |-> messages]

addChild(editable, tree, counter, parentId, name) ==
  IF ~editable THEN Failed(tree, counter, <<>>)
  ELSE LET parent == findNodeById(tree, parentId)
       IN IF ~parent.found THEN Failed(tree, counter, <<>>)
          ELSE LET node == NodeAt(tree, parent.path)
                   children == IF Has(node, "children") THEN node.children ELSE <<>>
                   newNode == [id |-> generateId(counter + 1),
                               name |-> OrElse(name, "New Node")]
                   pushed == With(node, "children", Append(children, newNode))
               IN [ret |-> "true",
                   tree |-> ReplaceAt(tree, parent.path, pushed), render |-> TRUE,
                   counter |-> counter + 1,
                   status |-> <<"Added child \"" \o OrElse(name, "New Node")
                                \o "\" to \"" \o node.name \o "\"">>]

\* addSibling putting the new node under the root when the node is not found
addSiblingToRoot(editable, tree, counter, nodeId, name) ==
  IF ~editable THEN Failed(tree, counter, <<>>)
  ELSE LET parent == findParentById(tree, nodeId)
           at == IF parent.found THEN parent.path ELSE <<>>
           node == NodeAt(tree, at)
           newNode == [id |-> generateId(counter + 1),
                       name |-> OrElse(name, "New Node")]
           siblingIndex == IF parent.found THEN findIndex(node.children, nodeId)
                           ELSE Len(node.children)
           spliced == With(node, "children",
                           InsertAt(node.children, siblingIndex + 1, newNode))
       IN [ret |-> "true",
           tree |-> ReplaceAt(tree, at, spliced), render |-> TRUE,
           counter |-> counter + 1,
           status |-> <<"Added sibling \"" \o OrElse(name, "New Node") \o "\"">>]

addSibling(editable, tree, counter, nodeId, name) ==
  IF ~editable THEN Failed(tree, counter, <<>>)
  ELSE LET parent == findParentById(tree, nodeId)
       IN IF ~parent.found THEN Failed(tree, counter, <<>>)
          ELSE LET node == NodeAt(tree, parent.path)
                   newNode == [id |-> generateId(counter + 1),
                               name |-> OrElse(name, "New Node")]
                   siblingIndex == findIndex(node.children, nodeId)
                   spliced == With(node, "children",
                                   InsertAt(node.children, siblingIndex + 1, newNode))
               IN [ret |-> "true",
                   tree |-> ReplaceAt(tree, parent.path, spliced), render |-> TRUE,
                   counter |-> counter + 1,
                   status |-> <<"Added sibling \"" \o OrElse(name, "New Node") \o "\"">>]

\* deleteNode guarding the literal id "root" instead of the live root's id
deleteNodeLiteralRoot(editable, tree, counter, nodeId) ==
  IF ~editable THEN Failed(tree, counter, <<>>)
  ELSE IF nodeId = "root" THEN Failed(tree, counter, <<"Cannot delete root node">>)
  ELSE LET parent == findParentById(tree, nodeId)
       IN IF ~parent.found THEN Failed(tree, counter, <<>>)
          ELSE LET node == NodeAt(tree, parent.path)
                   nodeIndex == findIndex(node.children, nodeId)
                   nodeName == node.children[nodeIndex].name
                   spliced == With(node, "children", RemoveAt(node.children, nodeIndex))
               IN [ret |-> "true",
                   tree |-> ReplaceAt(tree, parent.path, spliced), render |-> TRUE,
                   counter |-> counter,
                   status |-> <<"Deleted \"" \o nodeName \o "\"">>]

deleteNode(editable, tree, counter, nodeId) ==
  IF ~editable THEN Failed(tree, counter, <<>>)
  ELSE IF nodeId = tree.id THEN Failed(tree, counter, <<"Cannot delete root node">>)
  ELSE LET parent == findParentById(tree, nodeId)
       IN IF ~parent.found THEN Failed(tree, counter, <<>>)
          ELSE LET node == NodeAt(tree, parent.path)
                   nodeIndex == findIndex(node.children, nodeId)
                   nodeName == node.children[nodeIndex].name
                   spliced == With(node, "children", RemoveAt(node.children, nodeIndex))
               IN [ret |-> "true",
                   tree |-> ReplaceAt(tree, parent.path, spliced), render |-> TRUE,
                   counter |-> counter,
                   status |-> <<"Deleted \"" \o nodeName \o "\"">>]

renameNode(editable, tree, counter, nodeId, newName) ==
  IF ~editable THEN Failed(tree, counter, <<>>)
  ELSE LET found == findNodeById(tree, nodeId)
       IN IF ~found.found THEN Failed(tree, counter, <<>>)
          ELSE LET node == NodeAt(tree, found.path)
                   renamed == With(node, "name", OrElse(newName, "Unnamed"))
               IN [ret |-> "true",
                   tree |-> ReplaceAt(tree, found.path, renamed), render |-> TRUE,
                   counter |-> counter,
                   status |-> <<"Renamed \"" \o node.name \o "\" to \""
                                \o renamed.name \o "\"">>]

(***************************************************************************)
(* setData, getData on the heap                                            *)
(***************************************************************************)
Put(h, ref, tree) == (ref :> tree) @@ h

Drop(h, ref) == [r \in DOMAIN h \ {ref} |-> h[r]]

\* setData without the copy: the caller's object itself becomes this.treeData
setDataByReference(h, ref) ==
  [treeData |-> ref, heap |-> Put(h, ref, render(h[ref]))]

\* setData(data), data being the object at ref: the reference adopted as
\* this.treeData and the heap after render()
setData(h, ref) ==
  LET adopted == Put(h, "live", JSONClone(h[ref]))
  IN [treeData |-> "live", heap |-> Put(adopted, "live", render(adopted["live"]))]

\* getData(): the reference returned and the heap holding the new object
getData(h, td) == [ref |-> "got", heap |-> Put(h, "got", JSONClone(h[td]))]

(***************************************************************************)
(* Inputs                                                                  *)
(***************************************************************************)
\* the data init() loads when none was provided
DefaultData ==
  [id |-> "root", name |-> "My Mind Map",
   children |-> <<
     [id |-> "node1", name |-> "Idea 1",
      children |-> <<[id |-> "node1-1", name |-> "Detail A"]>>],
     [id |-> "node2", name |-> "Idea 2"],
     [id |-> "node3", name |-> "Idea 3",
      children |-> <<[id |-> "node3-1", name |-> "Detail B"],
                     [id |-> "node3-2", name |-> "Detail C"]>>] >>]

\* trees a caller passes to setData: ids pairwise distinct; children absent,
\* empty or filled; an id of the engine's own shape, as a tree exported from
\* another instance carries them
InputTrees ==
  { [id |-> "root", name |-> "R",
     children |-> <<[id |-> "a", name |-> "A", children |-> <<>>],
                    [id |-> "b", name |-> "B",
                     children |-> <<[id |-> "b1", name |-> "B1"]>>]>>],
    [id |-> "node_11", name |-> "K"] }

\* ids passed to addChild, addSibling and deleteNode, and to renameNode
Ids == {"root", "a", "node_11", "nope"}

RenameIds == {"a", "nope"}

\* names passed to addChild, to addSibling and to renameNode
AddNames == {"", "C"}

SiblingNames == {"C"}

RenameNames == {"", " ", "C"}

\* options passed to the constructor
Options == [editable : BOOLEAN, showStatus : BOOLEAN]

\* the changes passed to updateConfig
ConfigChanges == {[editable |-> b] : b \in BOOLEAN}

\* { ...old, ...new }
Merge(old, new) == new @@ old

\* setupDOM: this.statusEl under configuration c, el being its value before
setupStatus(c, el) ==
  IF c.showStatus THEN "attached" ELSE IF el = "null" THEN "null" ELSE "detached"

(***************************************************************************)
(* Init: a widget just constructed, init() having loaded the default data  *)
(***************************************************************************)
InitWidget(seed) ==
  /\ config \in Options
  /\ nodeIdCounter = seed
  /\ statusEl = setupStatus(config, "null")
  /\ LET loaded == setData([x |-> DefaultData], "x")
     IN /\ heap = loaded.heap
        /\ treeData = loaded.treeData
  /\ shown = setStatus(statusEl, "Data loaded successfully")
  /\ got = "none"
  /\ ret = "undefined"
  /\ isEditing = FALSE
  /\ editingNode = "null"
  /\ contextMenu = Null
  /\ menuEls = 0
  /\ modal = Null
  /\ zoom = <<1, 1>>
  /\ offsetX = <<0, 1>>
  /\ offsetY = <<0, 1>>
  /\ isDragging = FALSE
  /\ dragStart = Null
  /\ isTouching = FALSE
  /\ touchStart = Null
  /\ lastTouchDistance = Null
  /\ lastTouchCenter = Null
  /\ touches = <<>>
  /\ mouseDrag = FALSE
  /\ events = 0
  /\ now = 0
  /\ touchStartTime = 0
  /\ touchStartPos = Null
  /\ tapCount = 0
  /\ tapTimeout = Null
  /\ longPressTimeout = Null
  /\ longPressing = FALSE
  /\ strayed = FALSE
  /\ invoked = <<>>
  /\ attached = TRUE
  /\ input = FALSE

\* a page with this widget alone
InitAt(seed) ==
  /\ InitWidget(seed)
  /\ other = Null

Init == \E seed \in Seeds : InitAt(seed)

(***************************************************************************)
(* Actions                                                                 *)
(***************************************************************************)
\* the caller builds the object data and calls setData with it
SetData(data) ==
  LET loaded == setData(Put(Drop(heap, "got"), "x", data), "x")
  IN /\ ret' = "undefined"
     /\ got' = "none"
     /\ shown' = setStatus(statusEl, "Data loaded successfully")
     /\ treeData' = loaded.treeData
     /\ heap' = loaded.heap
     /\ UNCHANGED <<config, nodeIdCounter, statusEl, uiVars, viewVars, pressVars, pageVars>>

GetData ==
  LET r == getData(Drop(heap, "got"), treeData)
  IN /\ got = "none"
     /\ heap' = r.heap
     /\ got' = r.ref
     /\ shown' = ""
     /\ ret' = "undefined"
     /\ UNCHANGED <<config, treeData, nodeIdCounter, statusEl, uiVars, viewVars, pressVars, pageVars>>

\* the caller writes to the value getData returned (a new name for its root,
\* or its children emptied) and lets go of it
CallerMutate(field) ==
  /\ got # "none"
  /\ heap' = Drop(Put(heap, got,
                      With(heap[got], field, IF field = "name" THEN "M" ELSE <<>>)),
                  "got")
  /\ got' = "none"
  /\ shown' = ""
  /\ ret' = "undefined"
  /\ UNCHANGED <<config, treeData, nodeIdCounter, statusEl, uiVars, viewVars, pressVars, pageVars>>

\* a tree operation that skips its render()
ApplyUnrendered(r) ==
  /\ r.counter <= MaxCounter
  /\ nodeIdCounter' = r.counter
  /\ ret' = r.ret
  /\ shown' = setStatusAll(statusEl, r.status, "")
  /\ got' = "none"
  /\ heap' = Put(Drop(heap, "got"), treeData, r.tree)
  /\ UNCHANGED <<config, treeData, statusEl>>

\* the effect r of a tree operation on the widget
Apply(r) ==
  /\ r.counter <= MaxCounter
  /\ nodeIdCounter' = r.counter
  /\ ret' = r.ret
  /\ shown' = setStatusAll(statusEl, r.status, "")
  /\ got' = "none"
  /\ heap' = Put(Drop(heap, "got"), treeData,
                 IF r.render THEN render(r.tree) ELSE r.tree)
  /\ UNCHANGED <<config, treeData, statusEl>>

AddChild(parentId, name) ==
  /\ Apply(addChild(config.editable, heap[treeData], nodeIdCounter, parentId, name))
  /\ UNCHANGED <<uiVars, viewVars, pressVars, pageVars>>

AddSibling(nodeId, name) ==
  /\ Apply(addSibling(config.editable, heap[treeData], nodeIdCounter, nodeId, name))
  /\ UNCHANGED <<uiVars, viewVars, pressVars, pageVars>>

DeleteNode(nodeId) ==
  /\ Apply(deleteNode(config.editable, heap[treeData], nodeIdCounter, nodeId))
  /\ UNCHANGED <<uiVars, viewVars, pressVars, pageVars>>

RenameNode(nodeId, newName) ==
  /\ Apply(renameNode(config.editable, heap[treeData], nodeIdCounter, nodeId, newName))
  /\ UNCHANGED <<uiVars, viewVars, pressVars, pageVars>>

\* updateConfig(newConfig): merge, setupDOM, setupEventListeners, render
UpdateConfig(newConfig) ==
  /\ config' = Merge(config, newConfig)
  /\ statusEl' = setupStatus(config', statusEl)
  /\ heap' = Put(Drop(heap, "got"), treeData, render(heap[treeData]))
  /\ got' = "none"
  /\ shown' = ""
  /\ ret' = "undefined"
  /\ attached' = TRUE
  /\ UNCHANGED <<treeData, nodeIdCounter, uiVars, viewVars, pressVars, other, invoked,
                 input>>

(***************************************************************************)
(* The context menu, the name prompt and the inline edit session.          *)
(* contextMenu is Null or [nodeId, isRoot, name]: the node the menu was    *)
(* opened on, whether it was the root then (which items the menu has) and  *)
(* the name its items quote. modal is Null or [op, nodeId]: the call the   *)
(* prompt of showInputModal makes once it is confirmed. The overlay of an  *)
(* open prompt covers the page, so no gesture reaches a node or a menu     *)
(* meanwhile. The node handlers draw() attaches only when editable is on   *)
(* do nothing but call showContextMenu and startEdit, which test the       *)
(* option again.                                                           *)
(***************************************************************************)
\* an event or call that leaves the tree alone and returns nothing
Quiet ==
  /\ ret' = "undefined"
  /\ shown' = ""
  /\ UNCHANGED <<config, heap, treeData, got, nodeIdCounter, statusEl>>

\* a menu offering every item on every node
MenuItemsAll(menu) == {"rename", "addChild", "addSibling", "delete"}

\* the items of a menu
MenuItems(menu) ==
  IF menu.isRoot THEN {"rename", "addChild"}
  ELSE {"rename", "addChild", "addSibling", "delete"}

\* showContextMenu without its test of the option editable
showContextMenuAlways(editable, tree, menu, nodeId) ==
  Some([nodeId |-> nodeId,
        isRoot |-> nodeId = tree.id,
        name |-> NodeAt(tree, findNodeById(tree, nodeId).path).name])

\* showContextMenu(x, y, nodeId): this.contextMenu afterwards
showContextMenu(editable, tree, menu, nodeId) ==
  IF ~editable THEN menu
  ELSE Some([nodeId |-> nodeId,
             isRoot |-> nodeId = tree.id,
             name |-> NodeAt(tree, findNodeById(tree, nodeId).path).name])

\* startEdit without its test of this.isEditing
startEditAgain(editable, tree, editing, nodeId) ==
  IF ~editable THEN editing
  ELSE IF ~findNodeById(tree, nodeId).found THEN editing
  ELSE [isEditing |-> TRUE, editingNode |-> nodeId]

\* startEdit(nodeId): [isEditing, editingNode] afterwards
startEdit(editable, tree, editing, nodeId) ==
  IF ~editable \/ editing.isEditing THEN editing
  ELSE IF ~findNodeById(tree, nodeId).found THEN editing
  ELSE [isEditing |-> TRUE, editingNode |-> nodeId]

\* whether the edit input is in the document after startEdit(nodeId): the
\* session that starts gets one where document.querySelector finds the
\* element drawn for the node, which it does while the widget's elements are
\* in the document
startEditInput(editable, tree, editing, nodeId, inDocument, present) ==
  IF ~editable \/ editing.isEditing THEN present
  ELSE IF ~findNodeById(tree, nodeId).found THEN present
  ELSE inDocument

\* hideContextMenu dropping its reference to the menu without removing it
hideContextMenuKept(menu, els) == [contextMenu |-> Null, menuEls |-> els]

\* hideContextMenu(): this.contextMenu and the menu elements afterwards
hideContextMenu(menu, els) ==
  IF menu # Null THEN [contextMenu |-> Null, menuEls |-> els - 1]
  ELSE [contextMenu |-> menu, menuEls |-> els]

\* the menu elements after showContextMenu: it hides the menu there is and
\* appends the new one to document.body
menuElements(editable, menu, els) ==
  IF ~editable THEN els ELSE hideContextMenu(menu, els).menuEls + 1

\* a secondary click or a long press on the node drawn for nodeId, or a call
ShowContextMenu(nodeId) ==
  /\ modal = Null
  /\ findNodeById(heap[treeData], nodeId).found
  /\ contextMenu' = showContextMenu(config.editable, heap[treeData], contextMenu, nodeId)
  /\ menuEls' = menuElements(config.editable, contextMenu, menuEls)
  /\ Quiet
  /\ UNCHANGED <<isEditing, editingNode, modal, viewVars, pressVars, pageVars>>

\* hideContextMenu(), on a click anywhere in the document
HideContextMenu ==
  /\ modal = Null
  /\ contextMenu' = hideContextMenu(contextMenu, menuEls).contextMenu
  /\ menuEls' = hideContextMenu(contextMenu, menuEls).menuEls
  /\ Quiet
  /\ UNCHANGED <<isEditing, editingNode, modal, viewVars, pressVars, pageVars>>

\* a double click or a double tap on the node drawn for nodeId, or a call
StartEdit(nodeId) ==
  LET editing == startEdit(config.editable, heap[treeData],
                           [isEditing |-> isEditing, editingNode |-> editingNode],
                           nodeId)
  IN /\ modal = Null
     /\ findNodeById(heap[treeData], nodeId).found
     /\ isEditing' = editing.isEditing
     /\ editingNode' = editing.editingNode
     /\ input' = startEditInput(config.editable, heap[treeData],
                                [isEditing |-> isEditing, editingNode |-> editingNode],
                                nodeId, attached, input)
     /\ Quiet
     /\ UNCHANGED <<contextMenu, menuEls, modal, viewVars, pressVars, other, invoked,
                    attached>>

\* a click on an item of the open menu: hideContextMenu(), then the item's
\* action. The press of the click takes the focus from the input of an edit
\* session first, whose blur handler is FinishEdit, so no edit is going on
ClickMenuItem(item) ==
  /\ modal = Null
  /\ ~isEditing
  /\ contextMenu # Null
  /\ item \in MenuItems(contextMenu[1])
  /\ contextMenu' = hideContextMenu(contextMenu, menuEls).contextMenu
  /\ menuEls' = hideContextMenu(contextMenu, menuEls).menuEls
  /\ CASE item = "rename" ->
            LET editing == startEdit(config.editable, heap[treeData],
                                     [isEditing |-> isEditing,
                                      editingNode |-> editingNode],
                                     contextMenu[1].nodeId)
            IN /\ isEditing' = editing.isEditing
               /\ editingNode' = editing.editingNode
               /\ Quiet
               /\ UNCHANGED modal
       [] item \in {"addChild", "addSibling"} ->
            /\ modal' = Some([op |-> item, nodeId |-> contextMenu[1].nodeId])
            /\ Quiet
            /\ UNCHANGED <<isEditing, editingNode>>
       [] item = "delete" ->
            /\ Apply(deleteNode(config.editable, heap[treeData], nodeIdCounter,
                                contextMenu[1].nodeId))
            /\ UNCHANGED <<isEditing, editingNode, modal>>
  /\ input' = IF item = "rename"
              THEN startEditInput(config.editable, heap[treeData],
                                  [isEditing |-> isEditing, editingNode |-> editingNode],
                                  contextMenu[1].nodeId, attached, input)
              ELSE input
  /\ UNCHANGED <<viewVars, pressVars, other, invoked, attached>>

\* the item's click in the build that asks with window.prompt: the item's
\* action, then hideContextMenu(). prompt() blocks and answers null when it
\* is dismissed, else the text as typed; addChild and addSibling read the
\* name through name || 'New Node' only, where null is as the empty string
PromptMenuItem(item, dismissed, text) ==
  LET name == IF dismissed THEN "" ELSE text
      nodeId == contextMenu[1].nodeId
  IN /\ modal = Null
     /\ ~isEditing
     /\ contextMenu # Null
     /\ item \in MenuItems(contextMenu[1])
     /\ contextMenu' = hideContextMenu(contextMenu, menuEls).contextMenu
     /\ menuEls' = hideContextMenu(contextMenu, menuEls).menuEls
     /\ CASE item = "rename" ->
               LET editing == startEdit(config.editable, heap[treeData],
                                        [isEditing |-> isEditing,
                                         editingNode |-> editingNode],
                                        nodeId)
               IN /\ isEditing' = editing.isEditing
                  /\ editingNode' = editing.editingNode
                  /\ Quiet
          [] item = "addChild" ->
               /\ Apply(addChild(config.editable, heap[treeData], nodeIdCounter,
                                 nodeId, name))
               /\ UNCHANGED <<isEditing, editingNode>>
          [] item = "addSibling" ->
               /\ Apply(addSibling(config.editable, heap[treeData], nodeIdCounter,
                                   nodeId, name))
               /\ UNCHANGED <<isEditing, editingNode>>
          [] item = "delete" ->
               /\ Apply(deleteNode(config.editable, heap[treeData], nodeIdCounter,
                                   nodeId))
               /\ UNCHANGED <<isEditing, editingNode>>
     /\ input' = IF item = "rename"
                 THEN startEditInput(config.editable, heap[treeData],
                                     [isEditing |-> isEditing,
                                      editingNode |-> editingNode],
                                     nodeId, attached, input)
                 ELSE input
     /\ UNCHANGED <<modal, viewVars, pressVars, other, invoked, attached>>

\* the prompt's confirm with value typed into it: a blank value keeps it open
ModalConfirm(value) ==
  /\ modal # Null
  /\ IF Trim(value) = ""
     THEN Quiet /\ UNCHANGED modal
     ELSE /\ modal' = Null
          /\ IF modal[1].op = "addChild"
             THEN Apply(addChild(config.editable, heap[treeData], nodeIdCounter,
                                 modal[1].nodeId, Trim(value)))
             ELSE Apply(addSibling(config.editable, heap[treeData], nodeIdCounter,
                                   modal[1].nodeId, Trim(value)))
  /\ UNCHANGED <<isEditing, editingNode, contextMenu, menuEls, viewVars, pressVars, pageVars>>

\* the prompt's cancel
ModalCancel ==
  /\ modal # Null
  /\ modal' = Null
  /\ Quiet
  /\ UNCHANGED <<isEditing, editingNode, contextMenu, menuEls, viewVars, pressVars, pageVars>>

\* the body of finishEdit(save) up to input.remove(): the rename of the
\* trimmed text, or a render alone
finishEditBody(editable, tree, counter, nodeId, save, value) ==
  IF save /\ Trim(value) # ""
  THEN LET r == renameNode(editable, tree, counter, nodeId, Trim(value))
       IN [r EXCEPT !.tree = IF r.render THEN render(r.tree) ELSE r.tree,
                    !.render = FALSE]
  ELSE [ret |-> "undefined", tree |-> render(tree), render |-> FALSE,
        counter |-> counter, status |-> <<>>]

\* finishEdit keeping a blank text as the name
finishEditBlank(editable, tree, counter, nodeId, save, value, blurOnRemove) ==
  LET r == renameNode(editable, tree, counter, nodeId, Trim(value))
  IN [r EXCEPT !.tree = IF r.render THEN render(r.tree) ELSE r.tree,
               !.render = FALSE]

\* finishEdit(save) with value in the input. input.remove() comes before
\* isEditing is cleared: where the browser fires blur on the removal of the
\* focused input (blurOnRemove), the blur handler runs finishEdit(true) inside
\* the call, with isEditing still set
finishEdit(editable, tree, counter, nodeId, save, value, blurOnRemove) ==
  LET first == finishEditBody(editable, tree, counter, nodeId, save, value)
  IN IF blurOnRemove
     THEN LET second == finishEditBody(editable, first.tree, first.counter,
                                       nodeId, TRUE, value)
          IN [second EXCEPT !.status = first.status \o second.status]
     ELSE first

\* the end of an edit session, by an event of its input: blur and Enter
\* save, Escape does not. At a blur the input has lost the focus already and
\* its removal fires nothing
FinishEdit(save, value, blurOnRemove) ==
  /\ isEditing
  /\ input
  /\ isEditing' = FALSE
  /\ editingNode' = "null"
  /\ input' = FALSE
  /\ Apply(finishEdit(config.editable, heap[treeData], nodeIdCounter,
                      editingNode, save, value, blurOnRemove))
  /\ UNCHANGED <<contextMenu, menuEls, modal, viewVars, pressVars, other, invoked,
                 attached>>

\* destroy(): hideContextMenu, removeEventListeners, the container emptied.
\* The input of an edit session is a child of document.body and stays
Destroy ==
  /\ contextMenu' = hideContextMenu(contextMenu, menuEls).contextMenu
  /\ menuEls' = hideContextMenu(contextMenu, menuEls).menuEls
  /\ attached' = FALSE
  /\ Quiet
  /\ UNCHANGED <<isEditing, editingNode, modal, viewVars, pressVars, other, invoked,
                 input>>

(***************************************************************************)
(* The view: the wheel, mouse and touch handlers of the svg. Coordinates,  *)
(* zoom and offsets are exact fractions <<n, d>>, d > 0, in lowest terms.  *)
(* A point of the screen is <<clientX, clientY>>. A touch keeps the target *)
(* it began on: onNode says whether that is inside a .mindmap-node, whose  *)
(* events the handlers of the svg leave alone. events counts the pointer   *)
(* events dispatched, so that an event the handler ignores is a step too.  *)
(***************************************************************************)
Num(n) == <<n, 1>>

Plus(p, q) ==
  LET g == GCD(p[2], q[2])
  IN Frac(p[1] * (q[2] \div g) + q[1] * (p[2] \div g), (p[2] \div g) * q[2])

Minus(p, q) == Plus(p, <<0 - q[1], q[2]>>)

Times(p, q) ==
  LET g == GCD(p[1], q[2])
      h == GCD(q[1], p[2])
  IN Frac((p[1] \div g) * (q[1] \div h), (p[2] \div h) * (q[2] \div g))

\* p / q, q > 0
Over(p, q) == Times(p, <<q[2], q[1]>>)

Less(p, q) == p[1] * q[2] < q[1] * p[2]

\* Math.max and Math.min
Max(p, q) == IF Less(p, q) THEN q ELSE p

Min(p, q) == IF Less(p, q) THEN p ELSE q

\* Math.sqrt of a perfect square
Sqrt(n) == CHOOSE r \in 0..n : r * r = n

\* this.svg.getBoundingClientRect(): where the page shows the svg
RectLeft == 60

RectTop == 40

RectWidth == 400

RectHeight == 400

\* screenToSvg(screenX, screenY)
screenToSvg(screenX, screenY) ==
  [x |-> Times(Over(Minus(screenX, Num(RectLeft)), Num(RectWidth)), Num(Width)),
   y |-> Times(Over(Minus(screenY, Num(RectTop)), Num(RectHeight)), Num(Height))]

\* handleWheel that leaves the offset as it was
handleWheelUnanchored(view, deltaY) ==
  [view EXCEPT !.zoom = Times(view.zoom, IF deltaY > 0 THEN <<9, 10>> ELSE <<11, 10>>)]

\* handleWheel(e) with no edit going on: zoom and offset afterwards
handleWheel(view, deltaY) ==
  LET scaleFactor == IF deltaY > 0 THEN <<9, 10>> ELSE <<11, 10>>
      newZoom == Times(view.zoom, scaleFactor)
      centerPoint == screenToSvg(Plus(Num(RectLeft), Over(Num(RectWidth), Num(2))),
                                 Plus(Num(RectTop), Over(Num(RectHeight), Num(2))))
      fixedX == Over(Minus(centerPoint.x, view.offsetX), view.zoom)
      fixedY == Over(Minus(centerPoint.y, view.offsetY), view.zoom)
  IN [zoom |-> newZoom,
      offsetX |-> Minus(centerPoint.x, Times(fixedX, newZoom)),
      offsetY |-> Minus(centerPoint.y, Times(fixedY, newZoom))]

\* getTouchDistance(touches)
getTouchDistance(ts) ==
  LET dx == ts[1].x - ts[2].x
      dy == ts[1].y - ts[2].y
  IN Sqrt(dx * dx + dy * dy)

\* getTouchCenter(touches)
getTouchCenter(ts) ==
  [x |-> Over(Num(ts[1].x + ts[2].x), Num(2)),
   y |-> Over(Num(ts[1].y + ts[2].y), Num(2))]

\* the events a behaviour may hold
MaxEvents == 4

\* the touches the screen may hold at once
MaxTouches == 2

\* the svg receives one more pointer event
Pointer ==
  /\ events < MaxEvents
  /\ events' = events + 1

\* a wheel event over the svg
Wheel(deltaY) ==
  /\ Pointer
  /\ IF isEditing THEN UNCHANGED <<zoom, offsetX, offsetY>>
     ELSE LET view == handleWheel([zoom |-> zoom, offsetX |-> offsetX,
                                   offsetY |-> offsetY], deltaY)
          IN /\ zoom' = view.zoom
             /\ offsetX' = view.offsetX
             /\ offsetY' = view.offsetY
  /\ Quiet
  /\ UNCHANGED <<uiVars, pressVars, pageVars, isDragging, dragStart, isTouching, touchStart,
                 lastTouchDistance, lastTouchCenter, touches, mouseDrag>>

\* handleMouseDown without its test of this.isEditing
MouseDownAlways(p) ==
  /\ Pointer
  /\ isDragging' = TRUE
  /\ dragStart' = Some([x |-> Num(p[1]), y |-> Num(p[2]),
                        ox |-> offsetX, oy |-> offsetY])
  /\ mouseDrag' = TRUE
  /\ Quiet
  /\ UNCHANGED <<uiVars, pressVars, pageVars, zoom, offsetX, offsetY, isTouching, touchStart,
                 lastTouchDistance, lastTouchCenter, touches>>

\* handleMouseDown(e)
MouseDown(p) ==
  /\ Pointer
  /\ IF isEditing THEN UNCHANGED <<isDragging, dragStart, mouseDrag>>
     ELSE /\ isDragging' = TRUE
          /\ dragStart' = Some([x |-> Num(p[1]), y |-> Num(p[2]),
                                ox |-> offsetX, oy |-> offsetY])
          /\ mouseDrag' = TRUE
  /\ Quiet
  /\ UNCHANGED <<uiVars, pressVars, pageVars, zoom, offsetX, offsetY, isTouching, touchStart,
                 lastTouchDistance, lastTouchCenter, touches>>

\* handleMouseMove(e); reading this.dragStart.ox of null throws, and the
\* handler ends there
MouseMove(p) ==
  /\ Pointer
  /\ IF ~isDragging \/ isEditing \/ dragStart = Null
     THEN UNCHANGED <<offsetX, offsetY>>
     ELSE /\ offsetX' = Plus(dragStart[1].ox, Minus(Num(p[1]), dragStart[1].x))
          /\ offsetY' = Plus(dragStart[1].oy, Minus(Num(p[2]), dragStart[1].y))
  /\ Quiet
  /\ UNCHANGED <<uiVars, pressVars, pageVars, zoom, isDragging, dragStart, isTouching, touchStart,
                 lastTouchDistance, lastTouchCenter, touches, mouseDrag>>

\* handleMouseMove(e) ends in a TypeError: it reads this.dragStart.ox while
\* this.dragStart is still the constructor's null
MouseMoveThrows == isDragging /\ ~isEditing /\ dragStart = Null

\* handleMouseUp()
MouseUp ==
  /\ Pointer
  /\ isDragging' = FALSE
  /\ mouseDrag' = FALSE
  /\ Quiet
  /\ UNCHANGED <<uiVars, pressVars, pageVars, zoom, offsetX, offsetY, dragStart, isTouching,
                 touchStart, lastTouchDistance, lastTouchCenter, touches>>

\* handleMouseLeave()
MouseLeave ==
  /\ Pointer
  /\ isDragging' = FALSE
  /\ mouseDrag' = FALSE
  /\ Quiet
  /\ UNCHANGED <<uiVars, pressVars, pageVars, zoom, offsetX, offsetY, dragStart, isTouching,
                 touchStart, lastTouchDistance, lastTouchCenter, touches>>

\* handleTouchStart(e): a finger comes down at p, no other finger being there
TouchStart(p, onNode) ==
  LET ts == Append(touches, [x |-> p[1], y |-> p[2], onNode |-> onNode])
  IN /\ Pointer
     /\ Len(touches) < MaxTouches
     /\ \A i \in DOMAIN touches : <<touches[i].x, touches[i].y>> # p
     /\ touches' = ts
     /\ IF isEditing \/ onNode
        THEN UNCHANGED <<isTouching, isDragging, touchStart, lastTouchDistance,
                         lastTouchCenter>>
        ELSE /\ isTouching' = TRUE
             /\ IF Len(ts) = 1
                THEN /\ isDragging' = TRUE
                     /\ touchStart' = Some([x |-> Num(ts[1].x), y |-> Num(ts[1].y),
                                            ox |-> offsetX, oy |-> offsetY])
                     /\ UNCHANGED <<lastTouchDistance, lastTouchCenter>>
                ELSE IF Len(ts) = 2
                THEN LET center == getTouchCenter(ts)
                         svgCenter == screenToSvg(center.x, center.y)
                     IN /\ isDragging' = FALSE
                        /\ lastTouchDistance' = Some(getTouchDistance(ts))
                        /\ lastTouchCenter' = Some(center)
                        /\ touchStart' = Some([x |-> center.x, y |-> center.y,
                                               ox |-> offsetX, oy |-> offsetY,
                                               zoom |-> zoom,
                                               svgX |-> svgCenter.x,
                                               svgY |-> svgCenter.y])
                ELSE UNCHANGED <<isDragging, touchStart, lastTouchDistance,
                                 lastTouchCenter>>
     /\ Quiet
     /\ UNCHANGED <<uiVars, pressVars, pageVars, zoom, offsetX, offsetY, dragStart, mouseDrag>>

\* handleTouchMove(e): the finger touches[i] moves to p
TouchMove(i, p) ==
  LET ts == [touches EXCEPT ![i].x = p[1], ![i].y = p[2]]
  IN /\ Pointer
     /\ i \in DOMAIN touches
     /\ \A j \in DOMAIN touches : <<touches[j].x, touches[j].y>> # p
     /\ touches' = ts
     /\ IF ~isTouching \/ isEditing \/ touches[i].onNode
        THEN UNCHANGED <<zoom, offsetX, offsetY>>
        ELSE IF Len(ts) = 1 /\ isDragging /\ touchStart # Null
        THEN /\ offsetX' = Plus(touchStart[1].ox,
                                Minus(Num(ts[1].x), touchStart[1].x))
             /\ offsetY' = Plus(touchStart[1].oy,
                                Minus(Num(ts[1].y), touchStart[1].y))
             /\ UNCHANGED zoom
        ELSE IF Len(ts) = 2 /\ lastTouchDistance # Null /\ touchStart # Null
        THEN LET currentDistance == getTouchDistance(ts)
                 currentCenter == getTouchCenter(ts)
                 scaleFactor == Over(Num(currentDistance), Num(lastTouchDistance[1]))
                 newZoom == Max(<<1, 10>>,
                                Min(Num(5), Times(touchStart[1].zoom, scaleFactor)))
                 fixedX == Over(Minus(touchStart[1].svgX, touchStart[1].ox),
                                touchStart[1].zoom)
                 fixedY == Over(Minus(touchStart[1].svgY, touchStart[1].oy),
                                touchStart[1].zoom)
                 centerDx == Minus(currentCenter.x, lastTouchCenter[1].x)
                 centerDy == Minus(currentCenter.y, lastTouchCenter[1].y)
                 svgCenter == screenToSvg(currentCenter.x, currentCenter.y)
             IN /\ zoom' = newZoom
                /\ offsetX' = Plus(Minus(svgCenter.x, Times(fixedX, newZoom)), centerDx)
                /\ offsetY' = Plus(Minus(svgCenter.y, Times(fixedY, newZoom)), centerDy)
        ELSE UNCHANGED <<zoom, offsetX, offsetY>>
     /\ Quiet
     /\ UNCHANGED <<uiVars, pressVars, pageVars, isDragging, dragStart, isTouching, touchStart,
                    lastTouchDistance, lastTouchCenter, mouseDrag>>

\* handleTouchEnd(e): the finger touches[i] is lifted
TouchEnd(i) ==
  LET ts == [j \in 1..(Len(touches) - 1) |->
               IF j < i THEN touches[j] ELSE touches[j + 1]]
  IN /\ Pointer
     /\ i \in DOMAIN touches
     /\ touches' = ts
     /\ IF ~isTouching \/ touches[i].onNode
        THEN UNCHANGED <<isTouching, isDragging, touchStart, lastTouchDistance,
                         lastTouchCenter>>
        ELSE IF Len(ts) = 0
        THEN /\ isTouching' = FALSE
             /\ isDragging' = FALSE
             /\ touchStart' = Null
             /\ lastTouchDistance' = Null
             /\ lastTouchCenter' = Null
        ELSE IF Len(ts) = 1 /\ lastTouchDistance # Null
        THEN /\ lastTouchDistance' = Null
             /\ lastTouchCenter' = Null
             /\ isDragging' = TRUE
             /\ touchStart' = Some([x |-> Num(ts[1].x), y |-> Num(ts[1].y),
                                    ox |-> offsetX, oy |-> offsetY])
             /\ UNCHANGED isTouching
        ELSE UNCHANGED <<isTouching, isDragging, touchStart, lastTouchDistance,
                         lastTouchCenter>>
     /\ Quiet
     /\ UNCHANGED <<uiVars, pressVars, pageVars, zoom, offsetX, offsetY, dragStart, mouseDrag>>

\* resetView() leaving the zoom as it is
ResetViewOffsets ==
  /\ offsetX' = Num(0)
  /\ offsetY' = Num(0)
  /\ shown' = setStatus(statusEl, "View reset to center")
  /\ ret' = "undefined"
  /\ UNCHANGED <<config, heap, treeData, got, nodeIdCounter, statusEl, uiVars, pressVars, pageVars,
                 zoom, isDragging, dragStart, isTouching, touchStart,
                 lastTouchDistance, lastTouchCenter, touches, mouseDrag, events>>

\* resetView()
ResetView ==
  /\ offsetX' = Num(0)
  /\ offsetY' = Num(0)
  /\ zoom' = Num(1)
  /\ shown' = setStatus(statusEl, "View reset to center")
  /\ ret' = "undefined"
  /\ UNCHANGED <<config, heap, treeData, got, nodeIdCounter, statusEl, uiVars, pressVars, pageVars,
                 isDragging, dragStart, isTouching, touchStart, lastTouchDistance,
                 lastTouchCenter, touches, mouseDrag, events>>

(***************************************************************************)
(* The touch handlers draw() attaches to the element of a node: the long   *)
(* press and the double tap. They are those of one node, PressedId, and of *)
(* one finger. touchstart and touchend stop at the element and touchmove   *)
(* is left alone by handleTouchMove, so the view sees nothing of the       *)
(* touch. Timers fire as the time they are due is reached. No action next  *)
(* to these redraws the tree, which would make new elements.               *)
(***************************************************************************)
PressedId == "node1"

Tolerance == 15
FeedbackMs == 300
LongPressMs == 600
TapMs == 400
TapWindowMs == 400

\* the time between two steps of the clock, and the end of the clock
TickMs == 200
MaxNow == 1400

\* the square of the distance between two points of the screen
Dist2(a, b) == (a[1] - b[1]) * (a[1] - b[1]) + (a[2] - b[2]) * (a[2] - b[2])

\* a finger is on the node
Pressing == touches # <<>> /\ touches[1].onNode

\* the node's touchstart handler
NodeTouchStart(p) ==
  /\ config.editable
  /\ touches = <<>>
  /\ touches' = <<[x |-> p[1], y |-> p[2], onNode |-> TRUE]>>
  /\ touchStartTime' = now
  /\ touchStartPos' = Some(p)
  /\ longPressTimeout' = Some(now + FeedbackMs)
  /\ strayed' = FALSE
  /\ Quiet
  /\ UNCHANGED <<uiVars, pageVars, now, tapCount, tapTimeout, longPressing>>
  /\ UNCHANGED <<zoom, offsetX, offsetY, isDragging, dragStart, isTouching,
                 touchStart, lastTouchDistance, lastTouchCenter, mouseDrag, events>>

\* the node's touchmove handler, the finger going to p
NodeTouchMove(p) ==
  /\ config.editable
  /\ Pressing
  /\ <<touches[1].x, touches[1].y>> # p
  /\ touches' = <<[x |-> p[1], y |-> p[2], onNode |-> TRUE]>>
  /\ IF touchStartPos # Null /\ Dist2(p, touchStartPos[1]) > Tolerance * Tolerance
     THEN /\ longPressTimeout' = Null
          /\ longPressing' = FALSE
          /\ strayed' = TRUE
     ELSE UNCHANGED <<longPressTimeout, longPressing, strayed>>
  /\ Quiet
  /\ UNCHANGED <<uiVars, pageVars, now, touchStartTime, touchStartPos, tapCount,
                 tapTimeout>>
  /\ UNCHANGED <<zoom, offsetX, offsetY, isDragging, dragStart, isTouching,
                 touchStart, lastTouchDistance, lastTouchCenter, mouseDrag, events>>

\* the node's touchend handler, the finger lifting where it is
NodeTouchEnd ==
  LET touchDuration == now - touchStartTime
      touchEndPos == <<touches[1].x, touches[1].y>>
      near == Dist2(touchEndPos, touchStartPos[1]) < Tolerance * Tolerance
      editing == startEdit(config.editable, heap[treeData],
                           [isEditing |-> isEditing, editingNode |-> editingNode],
                           PressedId)
  IN /\ config.editable
     /\ Pressing
     /\ touches' = <<>>
     /\ longPressTimeout' = Null
     /\ longPressing' = FALSE
     /\ IF touchDuration >= LongPressMs /\ near
        THEN /\ contextMenu' = showContextMenu(config.editable, heap[treeData],
                                               contextMenu, PressedId)
             /\ menuEls' = menuElements(config.editable, contextMenu, menuEls)
             /\ UNCHANGED <<isEditing, editingNode, tapCount, tapTimeout>>
        ELSE IF touchDuration < TapMs /\ near
        THEN IF tapCount + 1 = 1
             THEN /\ tapCount' = 1
                  /\ tapTimeout' = Some(now + TapWindowMs)
                  /\ UNCHANGED <<isEditing, editingNode, contextMenu, menuEls>>
             ELSE IF tapCount + 1 = 2
             THEN /\ tapCount' = 0
                  /\ tapTimeout' = Null
                  /\ isEditing' = editing.isEditing
                  /\ editingNode' = editing.editingNode
                  /\ UNCHANGED <<contextMenu, menuEls>>
             ELSE /\ tapCount' = tapCount + 1
                  /\ UNCHANGED <<isEditing, editingNode, contextMenu, menuEls,
                                 tapTimeout>>
        ELSE UNCHANGED <<isEditing, editingNode, contextMenu, menuEls, tapCount,
                         tapTimeout>>
     /\ input' = IF ~(touchDuration >= LongPressMs /\ near)
                    /\ touchDuration < TapMs /\ near /\ tapCount + 1 = 2
                 THEN startEditInput(config.editable, heap[treeData],
                                     [isEditing |-> isEditing,
                                      editingNode |-> editingNode],
                                     PressedId, attached, input)
                 ELSE input
     /\ Quiet
     /\ UNCHANGED <<modal, other, invoked, attached, now, touchStartTime,
                    touchStartPos, strayed>>
     /\ UNCHANGED <<zoom, offsetX, offsetY, isDragging, dragStart, isTouching,
                    touchStart, lastTouchDistance, lastTouchCenter, mouseDrag, events>>

\* the clock goes on by a tick; the timers due by then fire: the long press
\* timer puts the class long-pressing on the element, the tap timer forgets
\* the tap and says so
Wait ==
  LET then == now + TickMs
      node == NodeAt(heap[treeData], findNodeById(heap[treeData], PressedId).path)
  IN /\ then <= MaxNow
     /\ now' = then
     /\ IF longPressTimeout # Null /\ longPressTimeout[1] <= then
        THEN longPressTimeout' = Null /\ longPressing' = TRUE
        ELSE UNCHANGED <<longPressTimeout, longPressing>>
     /\ IF tapTimeout # Null /\ tapTimeout[1] <= then
        THEN /\ tapTimeout' = Null
             /\ tapCount' = 0
             /\ shown' = setStatus(statusEl, "Tapped \"" \o node.name
                              \o "\" - Double tap to edit, long press for menu")
        ELSE UNCHANGED <<tapTimeout, tapCount, shown>>
     /\ UNCHANGED <<config, heap, treeData, got, nodeIdCounter, statusEl, ret>>
     /\ UNCHANGED <<uiVars, viewVars, pageVars, touchStartTime, touchStartPos,
                    strayed>>

Next ==
  \/ \E data \in InputTrees : SetData(data)
  \/ GetData
  \/ \E field \in {"name", "children"} : CallerMutate(field)
  \/ \E id \in Ids, name \in AddNames : AddChild(id, name)
  \/ \E id \in Ids, name \in SiblingNames : AddSibling(id, name)
  \/ \E id \in Ids : DeleteNode(id)
  \/ \E id \in RenameIds, name \in RenameNames : RenameNode(id, name)
  \/ \E c \in ConfigChanges : UpdateConfig(c)

Spec == Init /\ [][Next]_vars

\* the nodes the gestures and calls of UiNext aim at, and the values typed
UiIds == {"root", "a"}

TypedValues == {" ", " C "}

UiNext ==
  \/ SetData(CHOOSE data \in InputTrees : data.id = "root")
  \/ \E c \in ConfigChanges : UpdateConfig(c)
  \/ \E id \in UiIds : ShowContextMenu(id)
  \/ HideContextMenu
  \/ \E item \in {"rename", "addChild", "addSibling", "delete"} : ClickMenuItem(item)
  \/ \E value \in TypedValues : ModalConfirm(value)
  \/ ModalCancel
  \/ \E id \in UiIds : StartEdit(id)
  \/ \E save \in BOOLEAN, value \in TypedValues, blurOnRemove \in BOOLEAN :
        FinishEdit(save, value, blurOnRemove)
  \/ AddChild("a", "C")
  \/ AddSibling("a", "C")
  \/ DeleteNode("a")
  \/ RenameNode("a", "C")

\* Date.now() at the construction of the widget the gestures act on
UiSeed == 11

UiSpec == InitAt(UiSeed) /\ [][UiNext]_vars

\* the texts typed into window.prompt
PromptTexts == {"", "D"}

\* the build whose menu asks for names with window.prompt
PromptNext ==
  \/ SetData(CHOOSE data \in InputTrees : data.id = "root")
  \/ \E id \in UiIds : ShowContextMenu(id)
  \/ HideContextMenu
  \/ \E item \in {"rename", "addChild", "addSibling", "delete"},
        dismissed \in BOOLEAN, text \in PromptTexts :
        PromptMenuItem(item, dismissed, text)
  \/ \E save \in BOOLEAN, value \in TypedValues, blurOnRemove \in BOOLEAN :
        FinishEdit(save, value, blurOnRemove)

PromptSpec == InitAt(UiSeed) /\ [][PromptNext]_vars

\* the inputs of the gestures: where the pointers are and which way the
\* wheel turns
MousePoints == {<<100, 100>>, <<121, 100>>}

TouchPoints == {<<100, 100>>, <<121, 100>>, <<100, 320>>}

DeltaYs == {-100, 100}

ViewNext ==
  \/ \E deltaY \in DeltaYs : Wheel(deltaY)
  \/ \E p \in MousePoints : MouseDown(p)
  \/ \E p \in MousePoints : MouseMove(p)
  \/ MouseUp
  \/ MouseLeave
  \/ \E p \in TouchPoints, onNode \in BOOLEAN : TouchStart(p, onNode)
  \/ \E i \in 1..MaxTouches, p \in TouchPoints : TouchMove(i, p)
  \/ \E i \in 1..MaxTouches : TouchEnd(i)
  \/ ResetView
  \/ StartEdit("root")
  \/ FinishEdit(FALSE, "", FALSE)

ViewInit ==
  /\ InitAt(UiSeed)
  /\ config = [editable |-> TRUE, showStatus |-> TRUE]

ViewSpec == ViewInit /\ [][ViewNext]_vars

\* where the finger on the node comes down and goes: on the spot, 10 px
\* and 21 px from it
NodePoints == {<<100, 100>>, <<110, 100>>, <<121, 100>>}

\* the touches on a node, the clock and the click that hides the menu
PressNext ==
  \/ NodeTouchStart(<<100, 100>>)
  \/ \E p \in NodePoints : NodeTouchMove(p)
  \/ NodeTouchEnd
  \/ Wait
  \/ HideContextMenu

PressSpec == ViewInit /\ [][PressNext]_vars

\* the calls and edits that change or redraw the tree, next to a view the
\* wheel has zoomed
FrameNext ==
  \/ \E deltaY \in DeltaYs : Wheel(deltaY)
  \/ ResetView
  \/ SetData(CHOOSE data \in InputTrees : data.id = "root")
  \/ \E c \in ConfigChanges : UpdateConfig(c)
  \/ AddChild("a", "C")
  \/ AddSibling("a", "C")
  \/ DeleteNode("a")
  \/ RenameNode("a", "C")
  \/ StartEdit("a")
  \/ \E save \in BOOLEAN, blurOnRemove \in BOOLEAN : FinishEdit(save, " C ", blurOnRemove)

FrameSpec == ViewInit /\ [][FrameNext]_vars

(***************************************************************************)
(* Two widgets on one page. This widget comes first in the document; the   *)
(* other one shows the default tree and is editable. Of the other one only *)
(* the edit session is followed. The page has one focus: an input that     *)
(* takes it ends the session of the input that had it, by that input's     *)
(* blur, which is taken as the step before.                                *)
(***************************************************************************)
OtherIds == {"root", "node1"}

OtherIdle == [isEditing |-> FALSE, editingNode |-> "null", inputOver |-> "none"]

\* document.querySelector('[data-node-id=...]') called by the second widget:
\* the first element of the document with the id, whichever widget drew it
querySelector(firstTree, nodeId) ==
  IF findNodeById(firstTree, nodeId).found THEN "this" ELSE "own"

\* startEdit(nodeId) of the other widget
OtherStartEdit(nodeId) ==
  /\ other # Null
  /\ ~other[1].isEditing
  /\ ~isEditing
  /\ other' = Some([isEditing |-> TRUE, editingNode |-> nodeId,
                    inputOver |-> querySelector(heap[treeData], nodeId)])
  /\ UNCHANGED <<treeVars, uiVars, viewVars, pressVars, invoked, domVars>>

\* finishEdit of the other widget
OtherFinishEdit ==
  /\ other # Null
  /\ other[1].isEditing
  /\ other' = Some(OtherIdle)
  /\ UNCHANGED <<treeVars, uiVars, viewVars, pressVars, invoked, domVars>>

\* startEdit(nodeId) of this widget, the other one having no input open
PageStartEdit(nodeId) ==
  /\ other # Null
  /\ ~other[1].isEditing
  /\ StartEdit(nodeId)

PageInit ==
  /\ InitWidget(UiSeed)
  /\ config = [editable |-> TRUE, showStatus |-> TRUE]
  /\ other = Some(OtherIdle)

PageNext ==
  \/ SetData(CHOOSE data \in InputTrees : data.id = "root")
  \/ \E id \in UiIds : PageStartEdit(id)
  \/ \E save \in BOOLEAN, blurOnRemove \in BOOLEAN : FinishEdit(save, " C ", blurOnRemove)
  \/ \E id \in UiIds : ShowContextMenu(id)
  \/ HideContextMenu
  \/ \E id \in OtherIds : OtherStartEdit(id)
  \/ OtherFinishEdit

PageSpec == PageInit /\ [][PageNext]_vars

\* the nodes of the default tree a prompt is opened for, the second a child
\* of the first
StaleIds == {"node1", "node1-1"}

\* the host's deleteNode of a node it finds in the tree
DeleteLive(nodeId) ==
  /\ findNodeById(heap[treeData], nodeId).found
  /\ DeleteNode(nodeId)

\* name prompts opened from the menu, while the host deletes nodes of the tree
StaleNext ==
  \/ \E id \in StaleIds : ShowContextMenu(id)
  \/ HideContextMenu
  \/ \E item \in {"addChild", "addSibling"} : ClickMenuItem(item)
  \/ \E value \in TypedValues : ModalConfirm(value)
  \/ ModalCancel
  \/ \E id \in StaleIds : DeleteLive(id)

StaleSpec == InitAt(UiSeed) /\ [][StaleNext]_vars

\* the class drawNodes gives the element of a node
nodeClasses(node) ==
  IF Has(node, "_isRoot") /\ node._isRoot THEN "root"
  ELSE IF node._isLeaf THEN "leaf"
  ELSE "branch"

\* the caller rearranges the value getData returned, making its first child
\* the root and the old root that child's last child, and loads the result
SetDataRearranged ==
  /\ got # "none"
  /\ Has(heap[got], "children")
  /\ heap[got].children # <<>>
  /\ LET old == heap[got]
         first == Head(old.children)
         below == IF Has(first, "children") THEN first.children ELSE <<>>
     IN SetData(With(first, "children",
                     Append(below, With(old, "children", Tail(old.children)))))

\* trees loaded, exported, rearranged and loaded again, and changed by calls
RearrangeNext ==
  \/ \E data \in InputTrees : SetData(data)
  \/ GetData
  \/ SetDataRearranged
  \/ AddChild("root", "C")
  \/ \E id \in {"a", "node1"} : DeleteNode(id)

RearrangeSpec == Init /\ [][RearrangeNext]_vars

\* the callbacks the README tells the host to register with updateConfig
Callbacks == [onNodeAdd |-> "onNodeAdd", onNodeDelete |-> "onNodeDelete"]

\* the host registers its callbacks and changes the tree by calls
CallbackNext ==
  \/ UpdateConfig(Callbacks)
  \/ \E c \in ConfigChanges : UpdateConfig(c)
  \/ SetData(CHOOSE data \in InputTrees : data.id = "root")
  \/ \E id \in {"root", "a", "nope"} : AddChild(id, "C")
  \/ \E id \in {"root", "a", "nope"} : AddSibling(id, "C")
  \/ \E id \in {"root", "a", "nope"} : DeleteNode(id)

CallbackSpec == InitAt(UiSeed) /\ [][CallbackNext]_vars

\* the nodes of the default tree a menu is opened on
MenuIds == {"root", "node1"}

\* the gestures of the view next to an open menu
MenuNext ==
  \/ \E id \in MenuIds : ShowContextMenu(id)
  \/ HideContextMenu
  \/ \E deltaY \in DeltaYs : Wheel(deltaY)
  \/ \E p \in TouchPoints, onNode \in BOOLEAN : TouchStart(p, onNode)
  \/ \E i \in 1..MaxTouches, p \in TouchPoints : TouchMove(i, p)
  \/ \E i \in 1..MaxTouches : TouchEnd(i)

MenuSpec == ViewInit /\ [][MenuNext]_vars

\* the host destroys the widget, sets it up again with updateConfig, and
\* calls startEdit and showContextMenu; the input's events end a session
DestroyNext ==
  \/ Destroy
  \/ \E c \in ConfigChanges : UpdateConfig(c)
  \/ \E id \in MenuIds : StartEdit(id)
  \/ \E save \in BOOLEAN, value \in TypedValues, blurOnRemove \in BOOLEAN :
        FinishEdit(save, value, blurOnRemove)
  \/ \E id \in MenuIds : ShowContextMenu(id)
  \/ AddChild("root", "C")

DestroySpec == InitAt(UiSeed) /\ [][DestroyNext]_vars

(***************************************************************************)
(* What a caller can observe of a tree                                     *)
(***************************************************************************)
\* the documented content of a node: its id, its name and, where it has
\* them, its children
RECURSIVE Data(_)
Data(node) ==
  IF Has(node, "children")
  THEN [id |-> node.id, name |-> node.name,
        children |-> [i \in DOMAIN node.children |-> Data(node.children[i])]]
  ELSE [id |-> node.id, name |-> node.name]

\* the paths of the nodes of a tree that carry the id
PathsOf(tree, id) == {p \in Paths(tree) : NodeAt(tree, p).id = id}

\* the ids the nodes of a tree carry
RECURSIVE IdsOf(_)
IdsOf(node) ==
  {node.id} \cup (IF Has(node, "children")
                  THEN UNION {IdsOf(node.children[i]) : i \in DOMAIN node.children}
                  ELSE {})

\* no node of the tree carries a field the layout writes
NoLayout(tree) ==
  \A p \in Paths(tree) : DOMAIN NodeAt(tree, p) \cap LayoutFields = {}

Live == heap[treeData]

\* a step of one of the four mutation operations
Mutation(id, name) ==
  \/ AddChild(id, name)
  \/ AddSibling(id, name)
  \/ DeleteNode(id)
  \/ RenameNode(id, name)

(***************************************************************************)
(* C1: setData stores a deep copy and getData returns a deep copy: no      *)
(* operation of the engine changes the object the caller passed, a change  *)
(* the caller makes to an object obtained from getData leaves the live     *)
(* tree as it was, and the object passed to setData is left as passed.     *)
(***************************************************************************)
C1_DeepCopies ==
  [][ /\ \A data \in InputTrees : SetData(data) => heap'["x"] = data
      /\ (\A data \in InputTrees : ~SetData(data)) => heap'["x"] = heap["x"]
      /\ (\E field \in {"name", "children"} : CallerMutate(field))
           => heap'[treeData'] = heap[treeData] ]_vars

\* the caller's object and the live tree have gone separate ways: the engine
\* changed its tree after a setData, and the caller's object is as passed
C1_Witness ==
  /\ heap["x"] \in InputTrees
  /\ ret = "true"
  /\ Data(Live) # heap["x"]

(***************************************************************************)
(* C2: for a tree x made only of id, name and children, getData() called   *)
(* immediately after setData(x) returns a value deep-equal to x, none of   *)
(* whose nodes carries a layout-only field.                                *)
(***************************************************************************)
C2_RoundTrip ==
  [][\A data \in InputTrees :
       SetData(data) =>
         LET r == getData(heap', treeData')
             returned == r.heap[r.ref]
         IN /\ returned = data
            /\ NoLayout(returned) ]_vars

(***************************************************************************)
(* C3: deleteNode called with the root's id returns failure and leaves the *)
(* tree identical, whatever the tree and whatever operations preceded it.  *)
(***************************************************************************)
C3_RootDeletionFails ==
  [][DeleteNode(Live.id) =>
       /\ ret' = "false"
       /\ heap'[treeData'] = heap[treeData] ]_vars

\* a root deletion was refused on a tree that earlier operations had grown
C3_Witness ==
  /\ ret = "false"
  /\ shown = "Cannot delete root node"
  /\ nodeIdCounter \notin Seeds

(***************************************************************************)
(* C4: starting from a loaded tree whose ids are pairwise distinct, after  *)
(* any sequence of addChild, addSibling, deleteNode and renameNode calls   *)
(* no two nodes of the tree share an id.                                   *)
(***************************************************************************)
C4_IdsUnique ==
  \A p, q \in Paths(Live) : NodeAt(Live, p).id = NodeAt(Live, q).id => p = q

(***************************************************************************)
(* C5: when parentId names an existing node of an editable instance,       *)
(* addChild(parentId, name) returns success and the parent's children      *)
(* become the previous sequence (empty if absent) with one new childless   *)
(* node appended last, named name or "New Node" when name is empty; every  *)
(* other node, name and child order is unchanged.                          *)
(***************************************************************************)
ChildrenOf(node) == IF Has(node, "children") THEN node.children ELSE <<>>

\* post is pre with one childless node, named after name, appended to the
\* children of a node carrying the id
Appended(pre, post, id, name) ==
  \E p \in PathsOf(pre, id) :
    LET parent == Data(NodeAt(pre, p))
        n == Len(ChildrenOf(parent)) + 1
    IN /\ p \in Paths(post)
       /\ Len(ChildrenOf(NodeAt(post, p))) = n
       /\ LET new == Data(NodeAt(post, p).children[n])
          IN /\ ChildrenOf(new) = <<>>
             /\ new.name = (IF name = "" THEN "New Node" ELSE name)
             /\ Data(post) = ReplaceAt(Data(pre), p,
                               [id |-> parent.id, name |-> parent.name,
                                children |-> Append(ChildrenOf(parent), new)])

C5_AddChildAppends ==
  [][\A id \in Ids \cap IdsOf(Live), name \in AddNames :
       (config.editable /\ AddChild(id, name)) =>
         /\ ret' = "true"
         /\ Appended(Live, heap'[treeData'], id, name) ]_vars

\* the same without the condition on the option editable
C5_Original ==
  [][\A id \in Ids \cap IdsOf(Live), name \in AddNames :
       AddChild(id, name) =>
         /\ ret' = "true"
         /\ Appended(Live, heap'[treeData'], id, name) ]_vars

\* addChild with an empty name has just added a node to the root R
C5_Witness ==
  /\ ret = "true"
  /\ shown = "Added child \"New Node\" to \"R\""
  /\ ChildrenOf(Live) # <<>>
  /\ Live.children[Len(Live.children)].name = "New Node"

(***************************************************************************)
(* C6: in an editable instance addSibling(nodeId, name) on a non-root node *)
(* inserts exactly one new node immediately after nodeId in its parent's   *)
(* children, keeping the order of the existing siblings; on the root id,   *)
(* or an id with no locatable parent, it returns failure and changes       *)
(* nothing.                                                                *)
(***************************************************************************)
ParentPath(p) == SubSeq(p, 1, Len(p) - 1)

\* the paths of the nodes below the root that carry the id
NonRootPathsOf(tree, id) == PathsOf(tree, id) \ {<<>>}

\* post is pre with one node, named after name, inserted right after a
\* non-root node carrying the id
InsertedAfter(pre, post, id, name) ==
  \E p \in NonRootPathsOf(pre, id) :
    LET parent == Data(NodeAt(pre, ParentPath(p)))
        i == p[Len(p)]
        n == Len(parent.children)
    IN /\ ParentPath(p) \in Paths(post)
       /\ Len(ChildrenOf(NodeAt(post, ParentPath(p)))) = n + 1
       /\ LET new == Data(NodeAt(post, ParentPath(p)).children[i + 1])
          IN /\ new.name = (IF name = "" THEN "New Node" ELSE name)
             /\ Data(post) = ReplaceAt(Data(pre), ParentPath(p),
                               [id |-> parent.id, name |-> parent.name,
                                children |-> SubSeq(parent.children, 1, i)
                                             \o <<new>>
                                             \o SubSeq(parent.children, i + 1, n)])

C6_AddSiblingInserts ==
  [][\A id \in Ids, name \in SiblingNames :
       (config.editable /\ AddSibling(id, name)) =>
         IF id # Live.id /\ NonRootPathsOf(Live, id) # {}
         THEN /\ ret' = "true"
              /\ InsertedAfter(Live, heap'[treeData'], id, name)
         ELSE /\ ret' = "false"
              /\ heap'[treeData'] = heap[treeData] ]_vars

(***************************************************************************)
(* C7: in an editable instance deleteNode(nodeId) on an existing non-root  *)
(* node returns success and removes exactly that node and its subtree:     *)
(* afterwards no node of the removed subtree can be found by id, and every *)
(* other node keeps its name, parent and position.                         *)
(***************************************************************************)
\* post is pre without a non-root node carrying the id, and none of the ids
\* of that node's subtree finds a node of post
Removed(pre, post, id) ==
  \E p \in NonRootPathsOf(pre, id) :
    LET parent == Data(NodeAt(pre, ParentPath(p)))
        i == p[Len(p)]
        n == Len(parent.children)
        gone == NodeAt(pre, p)
    IN /\ Data(post) = ReplaceAt(Data(pre), ParentPath(p),
                         [id |-> parent.id, name |-> parent.name,
                          children |-> SubSeq(parent.children, 1, i - 1)
                                       \o SubSeq(parent.children, i + 1, n)])
       /\ \A q \in Paths(gone) : ~findNodeById(post, NodeAt(gone, q).id).found

C7_DeleteRemovesSubtree ==
  [][\A id \in Ids :
       (config.editable /\ NonRootPathsOf(Live, id) # {} /\ DeleteNode(id)) =>
         /\ ret' = "true"
         /\ Removed(Live, heap'[treeData'], id) ]_vars

(***************************************************************************)
(* C8: in an editable instance renameNode(nodeId, newName) on an existing  *)
(* node sets the node's name to newName, except that when newName is empty *)
(* after trimming the name becomes "Unnamed" and never an empty or blank   *)
(* string; no other node and no structure changes.                         *)
(***************************************************************************)
\* post is pre with the name of a node carrying the id set to name
Renamed(pre, post, id, name) ==
  \E p \in PathsOf(pre, id) :
    Data(post) = ReplaceAt(Data(pre), p, With(Data(NodeAt(pre, p)), "name", name))

C8_RenameSetsName ==
  [][\A id \in RenameIds \cap IdsOf(Live), name \in RenameNames :
       (config.editable /\ RenameNode(id, name)) =>
         /\ ret' = "true"
         /\ Renamed(Live, heap'[treeData'], id,
                    IF Trim(name) = "" THEN "Unnamed" ELSE name) ]_vars

(***************************************************************************)
(* C9: for an id that is not in the tree, each of addChild, addSibling,    *)
(* deleteNode and renameNode returns failure, consumes no generated id and *)
(* leaves the tree unchanged. An exception of the code is an operation    *)
(* reading a field of a missing node, which has no value here either.      *)
(***************************************************************************)
C9_NotFoundFails ==
  [][\A id \in Ids \ IdsOf(Live), name \in RenameNames :
       Mutation(id, name) =>
         /\ ret' = "false"
         /\ nodeIdCounter' = nodeIdCounter
         /\ heap'[treeData'] = heap[treeData] ]_vars

\* an editable instance with its status bar shown has refused a call without
\* a message, on a tree that earlier calls had grown and that lacks an id
C9_Witness ==
  /\ ret = "false"
  /\ config.editable
  /\ statusEl = "attached"
  /\ shown = ""
  /\ nodeIdCounter \notin Seeds
  /\ Ids \ IdsOf(Live) # {}

(***************************************************************************)
(* C10: in an editable instance whose status bar is shown, an attempted    *)
(* root deletion is reported with the message "Cannot delete root node";   *)
(* a mutating operation on an id that is not in the tree fails without     *)
(* that message, in every instance.                                        *)
(***************************************************************************)
C10_RootDeletionMessage ==
  [][/\ (config.editable /\ statusEl = "attached" /\ DeleteNode(Live.id))
          => (ret' = "false" /\ shown' = "Cannot delete root node")
      /\ \A id \in Ids \ IdsOf(Live), name \in RenameNames :
           Mutation(id, name)
             => (ret' = "false" /\ shown' # "Cannot delete root node") ]_vars

\* the same without the conditions on the options editable and showStatus
C10_Original ==
  [][/\ DeleteNode(Live.id)
          => (ret' = "false" /\ shown' = "Cannot delete root node")
      /\ \A id \in Ids \ IdsOf(Live), name \in RenameNames :
           Mutation(id, name)
             => (ret' = "false" /\ shown' # "Cannot delete root node") ]_vars

\* the user of an editable instance reads that the root cannot be deleted
C10_Witness ==
  /\ config.editable
  /\ statusEl = "attached"
  /\ ret = "false"
  /\ shown = "Cannot delete root node"

(***************************************************************************)
(* C11: while the option editable is false, addChild, addSibling,          *)
(* deleteNode and renameNode return failure, no context menu opens and no  *)
(* inline edit session starts: no call, gesture or prompt but setData      *)
(* changes the tree.                                                       *)
(***************************************************************************)
C11_NotEditableGate ==
  [][~config.editable =>
       /\ \/ heap'[treeData'] = heap[treeData]
          \/ \E data \in InputTrees : SetData(data)
       /\ contextMenu' \in {contextMenu, Null}
       /\ isEditing' => isEditing
       /\ (AddChild("a", "C") \/ AddSibling("a", "C")
             \/ DeleteNode("a") \/ RenameNode("a", "C")) => ret' = "false" ]_vars

\* a widget that is not editable has refused a call: its tree is the tree
\* setData loaded, no menu is open and no edit session runs
C11_Witness ==
  /\ ~config.editable
  /\ ret = "false"
  /\ heap["x"] \in InputTrees
  /\ Data(Live) = heap["x"]
  /\ contextMenu = Null
  /\ ~isEditing

(***************************************************************************)
(* C12: after annotation a node with an absent or empty child sequence has *)
(* leaf-count 1 and is marked leaf; any other node is marked non-leaf and  *)
(* its leaf-count is the sum of its children's leaf-counts, which is the   *)
(* number of childless nodes in its subtree; so every leaf-count is at     *)
(* least 1 and the root's is the number of leaves of the whole tree.       *)
(***************************************************************************)
\* the childless nodes of the subtree of a node
LeafPaths(node) == {q \in Paths(node) : ChildrenOf(NodeAt(node, q)) = <<>>}

RECURSIVE SumOver(_, _)
SumOver(f, n) == IF n = 0 THEN 0 ELSE f[n] + SumOver(f, n - 1)

C12_LeafCounts ==
  \A p \in Paths(Live) :
    LET node == NodeAt(Live, p)
        kids == ChildrenOf(node)
    IN /\ node._leafCount >= 1
       /\ node._leafCount = Cardinality(LeafPaths(node))
       /\ IF kids = <<>>
          THEN node._leafCount = 1 /\ node._isLeaf
          ELSE /\ ~node._isLeaf
               /\ node._leafCount
                    = SumOver([i \in DOMAIN kids |-> kids[i]._leafCount], Len(kids))

\* the annotated tree has a node whose child sequence is empty, a node below
\* the root that has children, and a root counting three leaves or more
C12_Witness ==
  /\ \E p \in Paths(Live) :
       Has(NodeAt(Live, p), "children") /\ NodeAt(Live, p).children = <<>>
  /\ \E p \in Paths(Live) \ {<<>>} : ~NodeAt(Live, p)._isLeaf
  /\ Live._leafCount >= 3

(***************************************************************************)
(* C13: for every node with children, the angular intervals given to its   *)
(* children are contiguous, non-overlapping, in child order, each of width *)
(* parentWidth * childLeafCount / parentLeafCount, and together cover the  *)
(* parent's interval exactly; the root's interval is the full turn that    *)
(* starts at 12 o'clock, less the gap at each end.                         *)
(***************************************************************************)
\* the interval layout gave the node at a path below the root
IntervalOf(tree, p) == CHOOSE iv \in layoutRootIntervals(tree) : iv.path = p

\* the interval whose children's intervals must fill it: the root's sweep for
\* the root
OwnInterval(tree, p) ==
  IF p = <<>> THEN [path |-> p, start |-> <<0, 1>>, end |-> <<1, 1>>]
  ELSE IntervalOf(tree, p)

\* end - start as a fraction, not reduced
IvWidth(iv) ==
  <<iv.end[1] * iv.start[2] - iv.start[1] * iv.end[2], iv.end[2] * iv.start[2]>>

MidAngle(iv) ==
  LET n == iv.start[1] * iv.end[2] + iv.end[1] * iv.start[2]
      d == 2 * iv.start[2] * iv.end[2]
  IN <<"sweep", n \div GCD(n, d), d \div GCD(n, d)>>

C14_Placement ==
  /\ Live._depth = 0
  /\ Live._angle = <<"rad", 0, 1>>
  /\ Live._x = [c |-> 400, r |-> 0, f |-> "cos", a |-> <<"rad", 0, 1>>]
  /\ Live._y = [c |-> 400, r |-> 0, f |-> "sin", a |-> <<"rad", 0, 1>>]
  /\ \A p \in Paths(Live) \ {<<>>} :
       LET node == NodeAt(Live, p)
           parent == NodeAt(Live, ParentPath(p))
       IN /\ node._depth = parent._depth + 1
          /\ node._depth = Len(p)
          /\ node._angle = MidAngle(IntervalOf(Live, p))
          /\ node._x = [c |-> 400, r |-> node._depth * 120, f |-> "cos",
                        a |-> node._angle]
          /\ node._y = [c |-> 400, r |-> node._depth * 120, f |-> "sin",
                        a |-> node._angle]
          /\ (Len(p) > 1 /\ Len(parent.children) = 1)
               => node._angle = parent._angle

\* after a successful mutation a node below the root has exactly one child
C14_Witness ==
  \E p \in Paths(Live) :
    /\ ret = "true"
    /\ Len(Live.children) >= 4
    /\ Len(p) > 1
    /\ Len(NodeAt(Live, ParentPath(p)).children) = 1
    /\ NodeAt(Live, p)._depth = 2

(***************************************************************************)
(* C15: in every reachable state, after any sequence of wheel, pinch, drag *)
(* and reset events, zoom lies within the bounds, 0.1 <= zoom <= 5.        *)
(***************************************************************************)
C15_ZoomBounded == ~Less(zoom, <<1, 10>>) /\ ~Less(Num(5), zoom)

(***************************************************************************)
(* C16: while no inline edit is going on, every wheel event multiplies     *)
(* zoom by the step factor (1.1 to zoom in, 0.9 to zoom out) and sets the  *)
(* offset so that the logical point shown at the center of the viewport    *)
(* before the event is shown there after it, whatever zoom and offset      *)
(* were; during an inline edit a wheel event changes neither.              *)
(***************************************************************************)
\* the center of the viewport in the coordinates of the svg
ViewCenter == [x |-> Num(400), y |-> Num(400)]

\* the step from zoom to zoom' is a multiplication by n / 10
Stepped(n) == zoom' = Times(zoom, <<n, 10>>)

\* the logical point shown at the point c of the svg is the same before and
\* after the step
Anchored(c) ==
  /\ Over(Minus(c.x, offsetX), zoom) = Over(Minus(c.x, offsetX'), zoom')
  /\ Over(Minus(c.y, offsetY), zoom) = Over(Minus(c.y, offsetY'), zoom')

C16_WheelAnchor ==
  [][\A deltaY \in DeltaYs :
       Wheel(deltaY) =>
         IF isEditing THEN UNCHANGED <<zoom, offsetX, offsetY>>
         ELSE /\ IF deltaY > 0 THEN Stepped(9) ELSE Stepped(11)
              /\ Anchored(ViewCenter)]_vars

\* C16 as stated: every wheel event, an inline edit going on or not
C16_Original ==
  [][\A deltaY \in DeltaYs :
       Wheel(deltaY) =>
         /\ IF deltaY > 0 THEN Stepped(9) ELSE Stepped(11)
         /\ Anchored(ViewCenter)]_vars

\* a drag by (21, 0), then a wheel event each way
C16_Witness ==
  /\ zoom = <<99, 100>>
  /\ offsetX = <<2479, 100>>
  /\ offsetY = <<4, 1>>
  /\ ~isEditing

(***************************************************************************)
(* C17: during a single-pointer drag (the mouse, or one touch that began   *)
(* outside every node) every move sets the offset to the offset recorded   *)
(* at the start of the gesture plus the pointer's displacement since then, *)
(* and leaves zoom alone; once the drag has ended (mouseup, mouseleave, or *)
(* all touches lifted) a move no longer changes the offset. Stated for the *)
(* moves that happen while no inline edit is going on.                     *)
(***************************************************************************)
\* the offset becomes what start recorded plus the displacement to p
PannedFrom(start, p) ==
  /\ offsetX' = Plus(start.ox, Minus(Num(p[1]), start.x))
  /\ offsetY' = Plus(start.oy, Minus(Num(p[2]), start.y))
  /\ zoom' = zoom

C17_DragPan ==
  [][~isEditing =>
       /\ \A p \in MousePoints :
            MouseMove(p) =>
              IF mouseDrag /\ touches = <<>> THEN PannedFrom(dragStart[1], p)
              ELSE mouseDrag \/ UNCHANGED <<offsetX, offsetY>>
       /\ \A i \in DOMAIN touches, p \in TouchPoints :
            (/\ TouchMove(i, p)
             /\ Len(touches) = 1
             /\ ~touches[1].onNode
             /\ isTouching
             /\ lastTouchDistance = Null
             /\ ~mouseDrag) => PannedFrom(touchStart[1], p)]_vars

(***************************************************************************)
(* C18: during a two-touch pinch every move sets zoom to the zoom recorded *)
(* at the start of the pinch times (the distance between the touches now / *)
(* the distance recorded at the start of the pinch), clamped to the zoom   *)
(* bounds 0.1 and 5: computed from the start of the gesture, so fingers    *)
(* back at their starting distance give the starting zoom back. Stated for *)
(* the moves that happen while no inline edit is going on.                 *)
(***************************************************************************)
\* a pinch is going on: two touches, and the start of the pinch recorded
Pinching == Len(touches) = 2 /\ isTouching /\ lastTouchDistance # Null

\* z clamped to the zoom bounds
Clamped(z) ==
  IF Less(z, <<1, 10>>) THEN <<1, 10>> ELSE IF Less(Num(5), z) THEN Num(5) ELSE z

C18_PinchZoom ==
  [][(Pinching /\ ~isEditing) =>
       \A i \in DOMAIN touches, p \in TouchPoints :
         TouchMove(i, p) =>
           zoom' = Clamped(Times(touchStart[1].zoom,
                                 <<getTouchDistance(touches'), lastTouchDistance[1]>>))]_vars

(***************************************************************************)
(* C19: during a two-touch pinch, after every move the logical point that  *)
(* was under the centroid at the start of the pinch is displayed at the    *)
(* starting centroid shifted by the movement of the centroid since then,   *)
(* that is, under the centroid of the touches now. Stated for the moves,   *)
(* of a touch that began outside every node, that happen while no inline   *)
(* edit is going on.                                                       *)
(***************************************************************************)
\* the logical point that was under the centroid when the pinch began
PinchAnchor ==
  [x |-> Over(Minus(touchStart[1].svgX, touchStart[1].ox), touchStart[1].zoom),
   y |-> Over(Minus(touchStart[1].svgY, touchStart[1].oy), touchStart[1].zoom)]

\* where the svg shows the logical point l after the step
ShownAfter(l) ==
  [x |-> Plus(offsetX', Times(zoom', l.x)), y |-> Plus(offsetY', Times(zoom', l.y))]

C19_PinchAnchor ==
  [][(Pinching /\ ~isEditing) =>
       \A i \in DOMAIN touches, p \in TouchPoints :
         (TouchMove(i, p) /\ ~touches[i].onNode) =>
           ShownAfter(PinchAnchor)
             = screenToSvg(getTouchCenter(touches').x, getTouchCenter(touches').y)]_vars

(***************************************************************************)
(* C20: when a two-touch pinch drops to one touch, the state of a single-  *)
(* touch pan is recorded anew from the offset of that moment and the       *)
(* position of the touch that remains, so that the next move of that touch *)
(* changes the offset by exactly its displacement since the drop.          *)
(***************************************************************************)
\* the record of a single-touch pan that starts now with the touch t
PanRecord(t) == [x |-> Num(t.x), y |-> Num(t.y), ox |-> offsetX, oy |-> offsetY]

C20_PinchToPan ==
  [][/\ Pinching =>
          \A i \in DOMAIN touches :
            TouchEnd(i) =>
              /\ touchStart' = Some(PanRecord(touches'[1]))
              /\ isDragging'
              /\ lastTouchDistance' = Null
              /\ UNCHANGED <<zoom, offsetX, offsetY>>
     /\ (/\ Len(touches) = 1
         /\ isTouching /\ isDragging /\ ~isEditing
         /\ touchStart # Null) =>
          \A p \in TouchPoints : TouchMove(1, p) => PannedFrom(touchStart[1], p)]_vars

(***************************************************************************)
(* C21: while an inline edit session is active, wheel, mousedown,          *)
(* mousemove, touchstart and touchmove events are no-ops: zoom and offset  *)
(* are unchanged and no drag or pinch is started.                          *)
(***************************************************************************)
\* what the gestures write of the view
GestureState ==
  <<zoom, offsetX, offsetY, isDragging, dragStart, isTouching, touchStart,
    lastTouchDistance, lastTouchCenter>>

C21_EditingInert ==
  [][isEditing =>
       ((\/ \E deltaY \in DeltaYs : Wheel(deltaY)
         \/ \E p \in MousePoints : MouseDown(p) \/ MouseMove(p)
         \/ \E p \in TouchPoints, onNode \in BOOLEAN : TouchStart(p, onNode)
         \/ \E i \in DOMAIN touches, p \in TouchPoints : TouchMove(i, p))
          => UNCHANGED GestureState)]_vars

\* during an edit two fingers have come down on the background and one has
\* moved, and the view is as it was at construction
C21_Witness ==
  /\ isEditing
  /\ events >= 3
  /\ Len(touches) = 2
  /\ \A i \in DOMAIN touches : ~touches[i].onNode
  /\ ~isTouching /\ ~isDragging /\ lastTouchDistance = Null
  /\ zoom = Num(1) /\ offsetX = Num(0) /\ offsetY = Num(0)

Named(tree, id, name) ==
  {Data(ReplaceAt(tree, p, With(NodeAt(tree, p), "name", name))) :
     p \in PathsOf(tree, id)}

\* a step confirming the session with value typed
Confirm(value) == \E blurOnRemove \in BOOLEAN : FinishEdit(TRUE, value, blurOnRemove)

C23_Confirm ==
  [][\A value \in TypedValues :
       Confirm(value) =>
         /\ ~isEditing'
         /\ editingNode' = "null"
         /\ IF Trim(value) # "" /\ config.editable
               /\ PathsOf(Live, editingNode) # {}
            THEN Data(Live') \in Named(Live, editingNode, Trim(value))
            ELSE Data(Live') = Data(Live)]_vars

\* C23 as stated: a text that is not blank always becomes the name
C23_Original ==
  [][\A value \in TypedValues :
       Confirm(value) =>
         /\ ~isEditing'
         /\ IF Trim(value) # ""
            THEN Data(Live') \in Named(Live, editingNode, Trim(value))
            ELSE Data(Live') = Data(Live)]_vars

\* the root carries the typed text trimmed, which only a confirmed edit
\* gives it, and the session is over
C23_Witness ==
  /\ ~isEditing
  /\ ret = "true"
  /\ Live.id = "root"
  /\ Live.name = "C"

(***************************************************************************)
(* C24: cancelling an inline edit with Escape discards the typed text: the *)
(* session ends and no node's name changes, also where removing the input  *)
(* fires the input's blur handler while the cancel is still running.       *)
(***************************************************************************)
\* a step cancelling the session with value typed
Cancel(value) == \E blurOnRemove \in BOOLEAN : FinishEdit(FALSE, value, blurOnRemove)

C24_CancelDiscards ==
  [][\A value \in TypedValues :
       Cancel(value) =>
         /\ ~isEditing'
         /\ editingNode' = "null"
         /\ Data(Live') = Data(Live)]_vars

(***************************************************************************)
(* C25: while an inline edit session is active, a secondary click or a     *)
(* long press on a node opens no context menu: a menu and a session are    *)
(* never there together, and no menu item or prompt of the menu adds or    *)
(* deletes a node during a session.                                        *)
(***************************************************************************)
C25_NoMenuWhileEditing ==
  [][/\ ~(isEditing' /\ contextMenu' # Null)
     /\ isEditing =>
          /\ \A id \in UiIds : ShowContextMenu(id) => contextMenu' = contextMenu
          /\ \A item \in {"addChild", "addSibling", "delete"} : ~ClickMenuItem(item)
          /\ \A value \in TypedValues : ~ModalConfirm(value)]_vars

OneMenu == menuEls = IF contextMenu = Null THEN 0 ELSE 1

C27_MenuCloses ==
  [][/\ OneMenu'
     /\ \A item \in {"rename", "addChild", "addSibling", "delete"} :
          ClickMenuItem(item) => contextMenu' = Null /\ menuEls' = 0
     /\ HideContextMenu => contextMenu' = Null /\ menuEls' = 0
     /\ \A id \in UiIds :
          ShowContextMenu(id) /\ config.editable =>
            contextMenu'[1].nodeId = id /\ menuEls' = 1]_vars

\* the menu of the root, opened while the menu of a was open, is the only
\* menu on the page and its delete item has removed a
C27_Witness ==
  /\ contextMenu # Null
  /\ contextMenu[1].nodeId = "root"
  /\ menuEls = 1
  /\ PathsOf(Live, "a") = {}
  /\ PathsOf(Live, "b") # {}
  /\ ~isEditing

(***************************************************************************)
(* C28: while a context menu is open, the start of an unrelated gesture    *)
(* (a wheel zoom, a touch pan, a pinch, a secondary click or long press    *)
(* elsewhere) closes it: no menu opened earlier is open once the gesture   *)
(* has started.                                                            *)
(***************************************************************************)
\* a wheel turn, or a finger coming down on the background
GestureStart ==
  \/ \E deltaY \in DeltaYs : Wheel(deltaY)
  \/ \E p \in TouchPoints : TouchStart(p, FALSE)

C28_GestureClosesMenu ==
  [][contextMenu # Null =>
       /\ GestureStart => contextMenu' = Null
       /\ \A id \in MenuIds :
            ShowContextMenu(id) /\ id # contextMenu[1].nodeId =>
              contextMenu' # contextMenu /\ menuEls' = 1]_vars

(***************************************************************************)
(* C29: when the user dismisses the name prompt of the menu's Add Child or *)
(* Add Sibling, the tree is left as it was (no node is added, no id is     *)
(* consumed), nothing is reported and the widget is idle: no prompt, no    *)
(* menu, no edit session.                                                  *)
(***************************************************************************)
\* the user dismisses the prompt: the cancel of the modal, or window.prompt
\* answering null
Dismiss ==
  \/ ModalCancel
  \/ \E item \in {"addChild", "addSibling"}, text \in PromptTexts :
       PromptMenuItem(item, TRUE, text)

C29_PromptDismissed ==
  [][Dismiss =>
       /\ Data(Live') = Data(Live)
       /\ nodeIdCounter' = nodeIdCounter
       /\ shown' = ""
       /\ modal' = Null
       /\ contextMenu' = Null
       /\ ~isEditing']_vars

(***************************************************************************)
(* C30: a touch on a node opens the context menu only if it lasted at      *)
(* least 600 ms and the finger stayed within 15 px of where it came down   *)
(* for the whole press: once the finger has been beyond the tolerance no   *)
(* menu opens, even if it is back near its start when it lifts.            *)
(***************************************************************************)
C30_LongPress ==
  [][NodeTouchEnd /\ contextMenu = Null /\ contextMenu' # Null =>
       /\ now - touchStartTime >= LongPressMs
       /\ ~strayed]_vars

(***************************************************************************)
(* C31: two taps on a node, each shorter than 400 ms and within the 15 px  *)
(* tolerance, the second ending within 400 ms of the first, start the      *)
(* inline edit of the node; a single tap, a tap of 400 ms or more, a touch *)
(* that went beyond the tolerance, or taps further apart never start it.   *)
(***************************************************************************)
\* the touch that is lifting was short and stayed within the tolerance
QuickTap ==
  /\ now - touchStartTime < TapMs
  /\ Dist2(<<touches[1].x, touches[1].y>>, touchStartPos[1]) < Tolerance * Tolerance
  /\ ~strayed

\* a tap has been counted and the window after it is still open
TapPending == tapCount = 1 /\ tapTimeout # Null /\ now < tapTimeout[1]

C31_DoubleTap ==
  [][NodeTouchEnd /\ ~isEditing =>
       /\ QuickTap /\ TapPending => isEditing' /\ editingNode' = PressedId
       /\ isEditing' => QuickTap /\ TapPending]_vars

(***************************************************************************)
(* C32: the viewport is the identity (zoom 1, offset (0,0)) after          *)
(* construction and after every resetView, and nothing resets it unasked:  *)
(* setData, updateConfig, addChild, addSibling, deleteNode, renameNode and *)
(* the inline edit leave zoom and offset as they are.                      *)
(***************************************************************************)
Viewport == <<zoom, offsetX, offsetY>>

Identity == <<Num(1), Num(0), Num(0)>>

\* a call or an edit that is no gesture of the view
TreeStep ==
  \/ \E data \in InputTrees : SetData(data)
  \/ \E c \in ConfigChanges : UpdateConfig(c)
  \/ AddChild("a", "C")
  \/ AddSibling("a", "C")
  \/ DeleteNode("a")
  \/ RenameNode("a", "C")
  \/ StartEdit("a")
  \/ \E save \in BOOLEAN, blurOnRemove \in BOOLEAN : FinishEdit(save, " C ", blurOnRemove)

C32_ViewportFrame ==
  /\ Viewport = Identity
  /\ [][/\ ResetView => Viewport' = Identity
        /\ TreeStep => Viewport' = Viewport]_vars

\* the view is the identity again after a reset of a zoomed view whose tree
\* had been changed and edited
C32_Witness ==
  /\ Viewport = Identity
  /\ shown = "View reset to center"
  /\ events >= 1
  /\ "node_12" \in IdsOf(Live)
  /\ isEditing

(***************************************************************************)
(* C33: two widgets on one page do not interfere: whatever is done with    *)
(* one of them leaves the other's tree, viewport, edit session and id      *)
(* counter as they are and touches none of the other's elements, also when *)
(* both trees have nodes with the same ids.                                *)
(***************************************************************************)
OtherStep == (\E id \in OtherIds : OtherStartEdit(id)) \/ OtherFinishEdit

C33_Independent ==
  [][OtherStep =>
       /\ UNCHANGED <<heap, treeData, nodeIdCounter, zoom, offsetX, offsetY,
                      isEditing, editingNode>>
       /\ other'[1].inputOver # "this"]_vars

(***************************************************************************)
(* C34: once onNodeAdd and onNodeDelete have been registered through       *)
(* updateConfig, every successful addChild or addSibling calls onNodeAdd   *)
(* exactly once and every successful deleteNode calls onNodeDelete exactly *)
(* once; a failed operation calls neither.                                 *)
(***************************************************************************)
Registered == Has(config, "onNodeAdd") /\ Has(config, "onNodeDelete")

Adding == \E id \in {"root", "a", "nope"} : AddChild(id, "C") \/ AddSibling(id, "C")

Deleting == \E id \in {"root", "a", "nope"} : DeleteNode(id)

C34_Callbacks ==
  [][Registered =>
       /\ Adding /\ ret' = "true" =>
            Len(invoked') = Len(invoked) + 1 /\ invoked'[Len(invoked')] = "onNodeAdd"
       /\ Deleting /\ ret' = "true" =>
            Len(invoked') = Len(invoked) + 1 /\ invoked'[Len(invoked')] = "onNodeDelete"
       /\ (Adding \/ Deleting) /\ ret' = "false" => invoked' = invoked]_vars

(***************************************************************************)
(* C35: whenever control is back with the caller (after setData and after  *)
(* every addChild, addSibling, deleteNode or renameNode), every node of    *)
(* the live tree carries the leaf-count, depth, angle and position that    *)
(* countLeaves and the layout compute for the tree as it is now: no stale, *)
(* missing or half-updated layout value is observable between events.      *)
(***************************************************************************)
Geometry == {"_leafCount", "_depth", "_angle", "_x", "_y"}

\* the node at path p of the tree carries the geometry of the node at p of
\* the freshly laid out tree
Fresh(tree, laidOut, p) ==
  \A k \in Geometry :
    /\ Has(NodeAt(tree, p), k)
    /\ NodeAt(tree, p)[k] = NodeAt(laidOut, p)[k]

C35_LayoutFresh ==
  LET laidOut == render(Data(Live))
  IN \A p \in Paths(Live) : Fresh(Live, laidOut, p)

\* a deletion has left the loaded tree one branch narrower
C35_Witness ==
  /\ ret = "true"
  /\ "b1" \in IdsOf(Live)
  /\ "a" \notin IdsOf(Live)
  /\ Live._leafCount = 1
  /\ C35_LayoutFresh

(***************************************************************************)
(* C36: the layout depends only on the tree and the configuration: an      *)
(* instance that reached its tree through any sequence of setData,         *)
(* additions, deletions and renames has, on every node, the depth, angle   *)
(* and position of a second instance of the same width, height and         *)
(* radiusStep that was handed the same tree (same ids, names and child     *)
(* order) in one setData.                                                  *)
(***************************************************************************)
\* the ids, names and child order of a tree: a node whose child sequence is
\* empty has the same children as one that has no child sequence
RECURSIVE Structure(_)
Structure(node) ==
  IF Has(node, "children") /\ node.children # <<>>
  THEN [id |-> node.id, name |-> node.name,
        children |-> [i \in DOMAIN node.children |-> Structure(node.children[i])]]
  ELSE [id |-> node.id, name |-> node.name]

Placement == {"_depth", "_angle", "_x", "_y"}

\* the tree of a second instance after setData(tree)
Twin(tree) ==
  LET loaded == setData("x" :> tree, "x")
  IN loaded.heap[loaded.treeData]

C36_LayoutDetermined ==
  LET twin == Twin(Structure(Live))
  IN \A p \in Paths(Live) : \A k \in Placement :
       NodeAt(Live, p)[k] = NodeAt(twin, p)[k]

\* an addition and a deletion have led back to a tree that setData loads
C36_Witness ==
  /\ ret = "true"
  /\ nodeIdCounter \notin Seeds
  /\ Structure(Live) \in {Structure(t) : t \in InputTrees}
  /\ Live.id = "root"

(***************************************************************************)
(* C37: when the node an Add Child or Add Sibling prompt was opened for    *)
(* has left the tree (deleted itself, or with an ancestor) by the time the *)
(* prompt is confirmed with a name, the confirmation adds no node, returns *)
(* a failure instead of throwing and leaves the tree as the deletion left  *)
(* it; a confirmed prompt adds at most one node.                           *)
(***************************************************************************)
Size(tree) == Cardinality(Paths(tree))

C37_StalePrompt ==
  [][\A value \in TypedValues :
       ModalConfirm(value) /\ Trim(value) # "" =>
         /\ modal[1].nodeId \notin IdsOf(Live) =>
              /\ ret' = "false"
              /\ heap'[treeData'] = Live
              /\ nodeIdCounter' = nodeIdCounter
         /\ Size(heap'[treeData']) <= Size(Live) + 1
         /\ modal' = Null]_vars

\* a prompt was confirmed after the node it was opened for had gone, alone or
\* with its parent: no other call fails under StaleSpec
C37_Witness ==
  /\ ret = "false"
  /\ modal = Null
  /\ IdsOf(Live) \cap StaleIds = {}
  /\ nodeIdCounter = UiSeed

(***************************************************************************)
(* C38: after every render exactly one node is drawn as the root, the      *)
(* tree's root, and every other node is drawn as a leaf or as a branch by  *)
(* its own children; so for every tree setData accepts, a rearranged value *)
(* of getData() included.                                                  *)
(***************************************************************************)
C38_OneRoot ==
  \A p \in Paths(Live) :
    nodeClasses(NodeAt(Live, p)) =
      IF p = <<>> THEN "root"
      ELSE IF Has(NodeAt(Live, p), "children") /\ NodeAt(Live, p).children # <<>>
           THEN "branch"
           ELSE "leaf"

(***************************************************************************)
(* C39: the mouse's and the touches' gesture state do not corrupt each     *)
(* other: a mousemove changes the offset only while a mouse drag is going  *)
(* on (a mousedown with no mouseup or mouseleave since), and then to the   *)
(* offset that drag recorded plus the displacement since; a touch pan or   *)
(* pinch going on never makes a mousemove move the viewport or fail; and   *)
(* no mouse event alters what a touch gesture recorded at its start.       *)
(***************************************************************************)
MouseStep ==
  \/ \E p \in MousePoints : MouseDown(p) \/ MouseMove(p)
  \/ MouseUp
  \/ MouseLeave

C39_GesturesApart ==
  [][/\ \A p \in MousePoints :
          MouseMove(p) =>
            /\ ~MouseMoveThrows
            /\ \/ UNCHANGED <<zoom, offsetX, offsetY>>
               \/ /\ mouseDrag
                  /\ zoom' = zoom
                  /\ offsetX' = Plus(dragStart[1].ox, Minus(Num(p[1]), dragStart[1].x))
                  /\ offsetY' = Plus(dragStart[1].oy, Minus(Num(p[2]), dragStart[1].y))
     /\ MouseStep => UNCHANGED <<touchStart, lastTouchDistance, lastTouchCenter,
                                 isTouching>>]_vars

(***************************************************************************)
(* C40: the widget can always leave Editing: whenever isEditing is true an *)
(* edit input exists, and its Enter, Escape or loss of focus returns the   *)
(* widget to Idle (isEditing false, editingNode none); no sequence of      *)
(* calls, startEdit after destroy included, leaves isEditing true with no  *)
(* event able to clear it.                                                 *)
(***************************************************************************)
EndOfEdit ==
  \E save \in BOOLEAN, value \in TypedValues, blurOnRemove \in BOOLEAN :
    FinishEdit(save, value, blurOnRemove)

C40_CanLeaveEditing ==
  [][/\ isEditing' => input'
     /\ EndOfEdit => ~isEditing' /\ editingNode' = "null"]_vars

====
